---- MODULE Spec2Model ----
(***************************************************************************)
(* NodeMLX thermal tracker: ThermalTracker (ThermalTracker.cpp),            *)
(* TrackedBlob (TrackedBlob.cpp) and the Blob / Pixel entities they use.    *)
(*                                                                          *)
(* C++ float values are kept as fixed-point integers in units of 1/FQ.      *)
(* Arrays are functions over 0..N-1 so that indices read as in the source.  *)
(***************************************************************************)
EXTENDS Integers, Naturals, Sequences, FiniteSets, TLC

\* ------------------------------------------------------------------------
\* Program constants
FRAME_WIDTH == 16
FRAME_HEIGHT == 4
MAX_BLOBS == 8
NUM_PIXELS == FRAME_WIDTH * FRAME_HEIGHT
UNCHANGED_FRAME_DELAY == 50
NUM_DIRECTION_CATEGORIES == 5

DEFAULT_MIN_TRAVEL_THRESHOLD == 4
DEFAULT_MIN_BLOB_SIZE == 3
DEFAULT_MAX_DIFFERENCE_THRESHOLD == 400
DEFAULT_MAX_DEAD_FRAMES == 4
DEFAULT_ACTIVE_PIXEL_VARIANCE_SCALAR == 4
DEFAULT_POSITION_PENALTY == 2
DEFAULT_AREA_PENALTY == 5
DEFAULT_ASPECT_RATIO_PENALTY == 10
DEFAULT_TEMPERATURE_PENALTY == 10
DEFAULT_DIRECTION_PENALTY == 50
DEFAULT_ADJACENCY_FUZZ == 1

\* enum directions
LEFT == 0
RIGHT == 1
UP == 2
DOWN == 3
NO_DIRECTION == 4

\* ------------------------------------------------------------------------
\* float: fixed point, FQ units per 1.0 (halves, thirds, quarters, eighths
\* and sixteenths are exact)
FQ == 48

\* DEFAULT_MIN_TEMPERATURE_DIFFERENTIAL = 0.5
DEFAULT_MIN_TEMPERATURE_DIFFERENTIAL == FQ \div 2

Rows == 0..(FRAME_HEIGHT - 1)
Cols == 0..(FRAME_WIDTH - 1)
Slots == 0..(MAX_BLOBS - 1)
PixelSlots == 0..(NUM_PIXELS - 1)

\* The float value NaN (also standing for the infinities of an input pixel):
\* it is no number of the fixed-point range, arithmetic on it gives NaN and
\* every ordering comparison with it is false
NaN == 0 - 999999999

\* float absolute(float f)
absolute(f) == IF f = NaN THEN NaN ELSE IF f < 0 THEN 0 - f ELSE f

\* Arduino abs() macro: ((x)>0?(x):-(x))
abs(x) == IF x > 0 THEN x ELSE 0 - x

\* float -> int conversion truncates toward zero (argument in FQ units)
ToInt(f) == IF f >= 0 THEN f \div FQ ELSE 0 - ((0 - f) \div FQ)

\* int -> float
ToFloat(n) == n * FQ

\* float / float and float / int, rounded toward zero
QuotTrunc(a, b) == IF (a >= 0) = (b > 0) THEN absolute(a) \div absolute(b)
                   ELSE 0 - (absolute(a) \div absolute(b))

FDivInt(a, n) == IF a = NaN \/ (a = 0 /\ n = 0) THEN NaN ELSE QuotTrunc(a, n)

\* float + float, float - float, float * int
FAdd(a, b) == IF a = NaN \/ b = NaN THEN NaN ELSE a + b
FSub(a, b) == IF a = NaN \/ b = NaN THEN NaN ELSE a - b
FMulInt(a, n) == IF a = NaN THEN NaN ELSE a * n

\* float > float
FGt(a, b) == a # NaN /\ b # NaN /\ a > b

Min2(a, b) == IF a < b THEN a ELSE b
Max2(a, b) == IF a > b THEN a ELSE b

\* sqrtf on a fixed-point value: the largest r with (r/FQ)^2 <= a/FQ,
\* found by bisection of lo..hi
RECURSIVE ISqrtIn(_, _, _)
ISqrtIn(n, lo, hi) ==
    IF lo >= hi THEN lo
    ELSE LET mid == (lo + hi + 1) \div 2
         IN IF mid * mid <= n THEN ISqrtIn(n, mid, hi) ELSE ISqrtIn(n, lo, mid - 1)

sqrtf(a) == IF a = NaN THEN NaN ELSE ISqrtIn(a * FQ, 0, Min2(a * FQ, 46340))

\* ------------------------------------------------------------------------
\* Pixel {col, row, temperature}
Pixel(x, y, t) == [x |-> x, y |-> y, t |-> t]

\* A Pixel slot that was never set
UnsetPixel == Pixel(0, 0, 0)

\* Pixel::is_adjacent: max(|d_row|, |d_col|) <= 1 + adjacency_fuzz
is_adjacent(p, q, fuzz) ==
    /\ absolute(p.x - q.x) <= 1 + fuzz
    /\ absolute(p.y - q.y) <= 1 + fuzz

\* ------------------------------------------------------------------------
\* Blob
\* Blob::clear - inactive, everything zeroed
BlobClear ==
    [num_pixels |-> 0, centroid_x |-> 0, centroid_y |-> 0,
     min_x |-> 0, min_y |-> 0, max_x |-> 0, max_y |-> 0,
     width |-> 0, height |-> 0, aspect_ratio |-> 0,
     average_temperature |-> 0, total_x |-> 0, total_y |-> 0,
     assigned |-> FALSE]

\* Blob::is_active - at least one pixel
BlobIsActive(b) == b.num_pixels > 0

\* Blob::get_size
BlobGetSize(b) == b.num_pixels

\* Blob::add_pixel - running sums, bounding box, running mean temperature
BlobAddPixel(b, p) ==
    LET n    == b.num_pixels + 1
        tx   == b.total_x + ToFloat(p.x)
        ty   == b.total_y + ToFloat(p.y)
        mnx  == IF b.num_pixels = 0 THEN p.x ELSE Min2(b.min_x, p.x)
        mny  == IF b.num_pixels = 0 THEN p.y ELSE Min2(b.min_y, p.y)
        mxx  == IF b.num_pixels = 0 THEN p.x ELSE Max2(b.max_x, p.x)
        mxy  == IF b.num_pixels = 0 THEN p.y ELSE Max2(b.max_y, p.y)
        w    == mxx - mnx + 1
        h    == mxy - mny + 1
    IN [b EXCEPT !.num_pixels = n,
                 !.total_x = tx, !.total_y = ty,
                 !.centroid_x = FDivInt(tx, n), !.centroid_y = FDivInt(ty, n),
                 !.min_x = mnx, !.min_y = mny, !.max_x = mxx, !.max_y = mxy,
                 !.width = w, !.height = h,
                 !.aspect_ratio = FDivInt(ToFloat(w), Max2(1, h)),
                 !.average_temperature =
                     FDivInt(b.average_temperature * b.num_pixels + p.t, n)]

\* Blob::copy - all information of the destination is overwritten
BlobCopy(dst, src) == src

BlobSetAssigned(b) == [b EXCEPT !.assigned = TRUE]
BlobClearAssigned(b) == [b EXCEPT !.assigned = FALSE]
BlobIsAssigned(b) == b.assigned

\* ------------------------------------------------------------------------
\* TrackedBlob
\* Static storage is zero-initialised, then TrackedBlob() runs clear()
TrackedBlobZero ==
    [blob |-> BlobClear, id |-> 0,
     predicted_x |-> 0, predicted_y |-> 0,
     travel_x |-> 0, travel_y |-> 0,
     total_travel_x |-> 0, total_travel_y |-> 0,
     start_pos_x |-> 0, start_pos_y |-> 0,
     start_time |-> 0, event_duration |-> 0,
     has_updated |-> FALSE, times_updated |-> 0,
     num_dead_frames |-> 0, max_num_dead_frames |-> 0,
     max_size |-> 0, max_width |-> 0, max_height |-> 0]

\* TrackedBlob::reset_updated_status
reset_updated_status(t) == [t EXCEPT !.has_updated = FALSE]

\* TrackedBlob::clear - id, start_pos, start_time, event_duration and
\* times_updated are not touched
TBClear(t) ==
    [t EXCEPT !.blob = BlobClear,
              !.predicted_x = 0 - FQ, !.predicted_y = 0 - FQ,
              !.travel_x = 0, !.travel_y = 0,
              !.total_travel_x = 0, !.total_travel_y = 0,
              !.max_size = 0, !.max_width = 0, !.max_height = 0,
              !.num_dead_frames = 0, !.max_num_dead_frames = 0,
              !.has_updated = FALSE]

\* TrackedBlob::copy_blob - the listed fields only
copy_blob(t, b) ==
    [t EXCEPT !.blob = [@ EXCEPT !.centroid_x = b.centroid_x,
                                 !.centroid_y = b.centroid_y,
                                 !.min_x = b.min_x, !.min_y = b.min_y,
                                 !.max_x = b.max_x, !.max_y = b.max_y,
                                 !.aspect_ratio = b.aspect_ratio,
                                 !.average_temperature = b.average_temperature,
                                 !.width = b.width, !.height = b.height,
                                 !.num_pixels = b.num_pixels]]

\* set() that leaves times_updated as clear() left it
TBSet_recount(t, b, id, now) == [copy_blob(TBClear([t EXCEPT !.id = id]), b) EXCEPT !.has_updated = TRUE, !.start_pos_x = b.centroid_x, !.start_pos_y = b.centroid_y, !.max_size = BlobGetSize(b), !.start_time = now, !.max_width = b.width, !.max_height = b.height]

\* TrackedBlob::set(Blob blob, unsigned int _id)
TBSet(t, b, id, now) ==
    LET t1 == copy_blob(TBClear([t EXCEPT !.id = id]), b)
    IN [t1 EXCEPT !.has_updated = TRUE,
                  !.start_pos_x = b.centroid_x, !.start_pos_y = b.centroid_y,
                  !.times_updated = 0,
                  !.max_size = BlobGetSize(b),
                  !.start_time = now,
                  !.max_width = b.width, !.max_height = b.height]

\* TrackedBlob::is_active
TBIsActive(t) == BlobIsActive(t.blob)

\* TrackedBlob::is_touching_side (width / 2 is an int division)
is_touching_side(t) ==
    \/ t.blob.centroid_x - ToFloat(t.blob.width \div 2) <= ToFloat(1)
    \/ t.blob.centroid_x + ToFloat(t.blob.width \div 2) <= ToFloat(FRAME_WIDTH - 1)

\* TrackedBlob::get_edge_penalty (frame_width / 2 is an int division)
get_edge_penalty(t, position) ==
    IF is_touching_side(t)
    THEN FQ - FDivInt(absolute(ToFloat(FRAME_WIDTH \div 2) - position), FRAME_WIDTH \div 2)
    ELSE FQ

\* float * float
FMul(a, b) == IF a = NaN \/ b = NaN THEN NaN ELSE QuotTrunc(a * b, FQ)

\* calculate_position_difference measuring from the predicted position always
calculate_position_difference_predicted(t, b, edge_penalty) ==
    FMul(absolute(t.predicted_x - b.centroid_x) * DEFAULT_POSITION_PENALTY
         + absolute(t.predicted_y - b.centroid_y) * DEFAULT_POSITION_PENALTY,
         edge_penalty)

\* TrackedBlob::calculate_position_difference
calculate_position_difference(t, b, edge_penalty) ==
    LET px == IF t.predicted_x >= 0 /\ t.predicted_y >= 0 THEN t.predicted_x ELSE t.blob.centroid_x
        py == IF t.predicted_x >= 0 /\ t.predicted_y >= 0 THEN t.predicted_y ELSE t.blob.centroid_y
        factor == absolute(px - b.centroid_x) * DEFAULT_POSITION_PENALTY
                  + absolute(py - b.centroid_y) * DEFAULT_POSITION_PENALTY
    IN FMul(factor, edge_penalty)

\* TrackedBlob::calculate_area_difference
calculate_area_difference(t, b, edge_penalty) ==
    FMul(ToFloat(absolute(BlobGetSize(t.blob) - BlobGetSize(b))) * DEFAULT_AREA_PENALTY,
         edge_penalty)

\* TrackedBlob::calculate_aspect_ratio_difference
calculate_aspect_ratio_difference(t, b, edge_penalty) ==
    FMul(absolute(t.blob.aspect_ratio - b.aspect_ratio) * DEFAULT_ASPECT_RATIO_PENALTY,
         edge_penalty)

\* TrackedBlob::calculate_temperature_difference
calculate_temperature_difference(t, b) ==
    absolute(t.blob.average_temperature - b.average_temperature) * DEFAULT_TEMPERATURE_PENALTY

\* TrackedBlob::calculate_direction_difference.  The source compares the
\* array travel (its address) with 0, which is true for every object.
calculate_direction_difference(t, b) ==
    LET latest_direction == ToInt(t.predicted_x - t.blob.centroid_x)
        travel_nonneg == TRUE
    IN IF /\ ~is_touching_side(t)
          /\ t.times_updated > 1
          /\ (latest_direction >= 0) # travel_nonneg
       THEN ToFloat(DEFAULT_DIRECTION_PENALTY)
       ELSE 0

\* TrackedBlob::calculate_dead_frame_difference (dead_frame_penalty is a
\* static that is defined as 0 and never assigned)
dead_frame_penalty == 0

calculate_dead_frame_difference(t) == ToFloat(t.num_dead_frames) * dead_frame_penalty

\* get_difference with the dead-frame term added to the sum, at the default
\* penalty per dead frame
get_difference_counts_dead(t, b) ==
    LET edge_penalty == get_edge_penalty(t, b.centroid_x)
    IN calculate_position_difference(t, b, edge_penalty)
       + calculate_area_difference(t, b, edge_penalty)
       + calculate_aspect_ratio_difference(t, b, edge_penalty)
       + calculate_temperature_difference(t, b)
       + calculate_direction_difference(t, b)
       + ToFloat(t.num_dead_frames)
            * (DEFAULT_MAX_DIFFERENCE_THRESHOLD \div DEFAULT_MAX_DEAD_FRAMES)

\* TrackedBlob::get_difference - the dead-frame difference is not summed
get_difference(t, b) ==
    LET edge_penalty == get_edge_penalty(t, b.centroid_x)
    IN calculate_position_difference(t, b, edge_penalty)
       + calculate_area_difference(t, b, edge_penalty)
       + calculate_aspect_ratio_difference(t, b, edge_penalty)
       + calculate_temperature_difference(t, b)
       + calculate_direction_difference(t, b)

\* update_movements predicting the blob where it was seen
update_movements_no_lead(t, b) ==
    LET movement_x == b.centroid_x - t.blob.centroid_x
        movement_y == b.centroid_y - t.blob.centroid_y
    IN [t EXCEPT !.predicted_x = b.centroid_x,
                 !.predicted_y = b.centroid_y,
                 !.travel_x = @ + movement_x,
                 !.travel_y = @ + movement_y,
                 !.total_travel_x = ToInt(ToFloat(@) + abs(movement_x)),
                 !.total_travel_y = ToInt(ToFloat(@) + abs(movement_y))]

\* TrackedBlob::update_movements (total_travel is int[2])
update_movements(t, b) ==
    LET movement_x == b.centroid_x - t.blob.centroid_x
        movement_y == b.centroid_y - t.blob.centroid_y
    IN [t EXCEPT !.predicted_x = b.centroid_x + movement_x,
                 !.predicted_y = b.centroid_y + movement_y,
                 !.travel_x = @ + movement_x,
                 !.travel_y = @ + movement_y,
                 !.total_travel_x = ToInt(ToFloat(@) + abs(movement_x)),
                 !.total_travel_y = ToInt(ToFloat(@) + abs(movement_y))]

\* TrackedBlob::update_geometry
update_geometry(t, b) ==
    [t EXCEPT !.max_size = Max2(@, BlobGetSize(b)),
              !.max_width = Max2(@, b.width),
              !.max_height = Max2(@, b.height)]

\* update_blob that leaves num_dead_frames as it is
update_blob_still_dead(t, b, now) == [update_geometry(copy_blob(update_movements([t EXCEPT !.event_duration = now - t.start_time], b), b), b) EXCEPT !.has_updated = TRUE, !.max_num_dead_frames = Max2(@, t.num_dead_frames), !.times_updated = @ + 1]

\* TrackedBlob::update_blob
update_blob(t, b, now) ==
    LET t1 == [t EXCEPT !.event_duration = now - t.start_time]
        t2 == update_geometry(copy_blob(update_movements(t1, b), b), b)
    IN [t2 EXCEPT !.has_updated = TRUE,
                  !.max_num_dead_frames = Max2(@, t2.num_dead_frames),
                  !.num_dead_frames = 0,
                  !.times_updated = @ + 1]

\* The copy that leaves the id of the destination in place
TBCopy_keep_id(dst, src) == [src EXCEPT !.id = dst.id]

\* The copy that leaves out num_dead_frames
TBCopy_alive(dst, src) == [src EXCEPT !.num_dead_frames = dst.num_dead_frames]

\* TrackedBlob::copy - copy_blob of the snapshot, then every tracking field
\* of the source
TBCopy(dst, src) == copy_blob([src EXCEPT !.blob = dst.blob], src.blob)

\* TrackedBlob::get_travel
get_travel_x(t) == t.travel_x
get_travel_y(t) == t.travel_y

\* ------------------------------------------------------------------------
\* ThermalTracker: blob detection

\* The test of get_active_pixels on pixel (i, j)
IsActivePixel(frm, averages, variance, i, j) ==
    LET temperature_difference == absolute(FSub(averages[i][j], frm[i][j]))
    IN /\ FGt(temperature_difference,
              FMulInt(variance[i][j], DEFAULT_ACTIVE_PIXEL_VARIANCE_SCALAR))
       /\ FGt(temperature_difference, DEFAULT_MIN_TEMPERATURE_DIFFERENTIAL)

\* ThermalTracker::get_active_pixels - the row-major scan puts the m-th
\* active pixel (k = i * FRAME_WIDTH + j in scan order) into pixel_buffer[m]
get_active_pixels(frm, averages, variance) ==
    LET act == {k \in PixelSlots :
                   IsActivePixel(frm, averages, variance,
                                 k \div FRAME_WIDTH, k % FRAME_WIDTH)}
        at(m) == CHOOSE k \in act : Cardinality({k2 \in act : k2 < k}) = m
    IN [buf |-> [m \in PixelSlots |->
                    IF m < Cardinality(act)
                    THEN Pixel(at(m) % FRAME_WIDTH, at(m) \div FRAME_WIDTH,
                               frm[at(m) \div FRAME_WIDTH][at(m) % FRAME_WIDTH])
                    ELSE UnsetPixel],
        n |-> Cardinality(act)]

\* ThermalTracker::clear_blobs
clear_blobs == [i \in Slots |-> BlobClear]

\* The for loop of get_blobs over the remaining active pixels, one sweep for
\* the queue pixel sort_queue[queue_index].  g holds the locals of get_blobs
\* and two records of its accesses: reads_ok tells that every active_pixels
\* entry read so far lay below num_active_pixels, pool_ok that every index
\* into active_pixels, sort_queue and blobs lay inside the array.
RECURSIVE BlobSweep(_, _, _)
BlobSweep(g, i0, fuzz) ==
    IF i0 >= g.num_active_pixels THEN g
    ELSE LET i == IF g.first_pixel THEN i0 + 1 ELSE i0
             p == IF i \in PixelSlots THEN g.active_pixels[i] ELSE UnsetPixel
             adjacent == is_adjacent(g.sort_queue[g.queue_index], p, fuzz)
             g1 == [g EXCEPT !.first_pixel = FALSE,
                             !.reads_ok = @ /\ i < g.num_active_pixels,
                             !.pool_ok = /\ @
                                         /\ i \in PixelSlots
                                         /\ IF adjacent
                                            THEN g.num_queued_pixels \in PixelSlots
                                            ELSE g.vacant_index \in PixelSlots]
         IN IF adjacent
            THEN BlobSweep([g1 EXCEPT !.sort_queue[g.num_queued_pixels] = p,
                                      !.num_queued_pixels = @ + 1],
                           i + 1, fuzz)
            ELSE BlobSweep([g1 EXCEPT !.active_pixels[g.vacant_index] =
                                          IF g.vacant_index < i THEN p ELSE @,
                                      !.vacant_index = @ + 1],
                           i + 1, fuzz)

\* while (queue_index < num_queued_pixels): sweep, then absorb the pixel;
\* added lists the add_pixel calls (the blob index and the pixel) and sweeps
\* the for loops run (the blob index and num_active_pixels before and after)
RECURSIVE BlobConstruct(_, _)
BlobConstruct(g, fuzz) ==
    IF g.queue_index >= g.num_queued_pixels THEN g
    ELSE LET s == BlobSweep(g, 0, fuzz)
         IN BlobConstruct(
                [s EXCEPT !.num_active_pixels = s.vacant_index,
                          !.pool_ok = @ /\ s.num_blobs \in Slots
                                        /\ s.queue_index \in PixelSlots,
                          !.vacant_index = 0,
                          !.blobs[s.num_blobs] =
                              BlobAddPixel(@, s.sort_queue[s.queue_index]),
                          !.added = Append(@, [blob |-> s.num_blobs,
                                               p |-> s.sort_queue[s.queue_index]]),
                          !.sweeps = Append(@, [blob |-> s.num_blobs,
                                                before |-> g.num_active_pixels,
                                                after |-> s.vacant_index]),
                          !.queue_index = @ + 1],
                fuzz)

\* The outer loop stopping one blob early
RECURSIVE BlobOuter_short(_, _)
BlobOuter_short(g, fuzz) ==
    IF ~(g.num_active_pixels > 0 /\ g.num_blobs < MAX_BLOBS - 1) THEN g
    ELSE LET start == [g EXCEPT !.num_queued_pixels = 1,
                                !.queue_index = 0,
                                !.vacant_index = 0,
                                !.sort_queue = [k \in PixelSlots |->
                                    IF k = 0 THEN g.active_pixels[0] ELSE UnsetPixel],
                                !.first_pixel = TRUE]
             built == BlobConstruct(start, fuzz)
         IN BlobOuter_short([built EXCEPT !.num_blobs = @ + 1], fuzz)

\* while ((num_active_pixels > 0) && (num_blobs < MAX_BLOBS))
RECURSIVE BlobOuter(_, _)
BlobOuter(g, fuzz) ==
    IF ~(g.num_active_pixels > 0 /\ g.num_blobs < MAX_BLOBS) THEN g
    ELSE LET start == [g EXCEPT !.num_queued_pixels = 1,
                                !.queue_index = 0,
                                !.vacant_index = 0,
                                !.sort_queue = [k \in PixelSlots |->
                                    IF k = 0 THEN g.active_pixels[0] ELSE UnsetPixel],
                                !.first_pixel = TRUE]
             built == BlobConstruct(start, fuzz)
         IN BlobOuter([built EXCEPT !.num_blobs = @ + 1], fuzz)

\* ThermalTracker::get_blobs - its locals at the return: blobs is the
\* output array and num_blobs the value returned
get_blobs(frm, averages, variance, fuzz) ==
    LET act == get_active_pixels(frm, averages, variance)
        g0 == [active_pixels |-> act.buf, num_active_pixels |-> act.n,
               num_blobs |-> 0, vacant_index |-> NUM_PIXELS + 1,
               blobs |-> clear_blobs,
               sort_queue |-> [k \in PixelSlots |-> UnsetPixel],
               num_queued_pixels |-> 0, queue_index |-> 0,
               first_pixel |-> FALSE, reads_ok |-> TRUE, pool_ok |-> TRUE,
               added |-> <<>>, sweeps |-> <<>>]
    IN BlobOuter(g0, fuzz)

\* The for loop of remove_small_blobs
RECURSIVE RemoveSmallLoop(_, _, _, _)
RemoveSmallLoop(blobs, i, vacant_index, min_size) ==
    IF i = MAX_BLOBS THEN blobs
    ELSE IF BlobGetSize(blobs[i]) < min_size
         THEN RemoveSmallLoop([blobs EXCEPT ![i] = BlobClear], i + 1,
                              IF i < vacant_index THEN i ELSE vacant_index, min_size)
         ELSE IF i > vacant_index
              THEN RemoveSmallLoop(
                       [blobs EXCEPT ![vacant_index] = BlobCopy(@, blobs[i]),
                                     ![i] = BlobClear],
                       i + 1, vacant_index + 1, min_size)
              ELSE RemoveSmallLoop(blobs, i + 1, vacant_index, min_size)

\* The pruning that also drops the blobs of exactly min_size pixels
remove_small_blobs_strict(blobs, min_size) == RemoveSmallLoop(blobs, 0, MAX_BLOBS + 1, min_size + 1)

\* ThermalTracker::remove_small_blobs
remove_small_blobs(blobs, min_size) ==
    RemoveSmallLoop(blobs, 0, MAX_BLOBS + 1, min_size)

\* ThermalTracker::get_num_blobs(Blob[])
get_num_blobs(blobs) == Cardinality({i \in Slots : BlobIsActive(blobs[i])})

\* ThermalTracker::get_num_blobs(TrackedBlob[])
get_num_tracked_blobs(tb) == Cardinality({i \in Slots : TBIsActive(tb[i])})

\* ------------------------------------------------------------------------
\* ThermalTracker: inter-frame tracking.  The operators below pass a record
\* st = [tb: tracked_blobs, bl: new_blobs, mv: movements,
\*       chg: movement_changed_since_last_check, tid: static track_id,
\*       ev: the calls made so far in this update()]

\* One entry of the call log of an update()
NoDelta == [d \in 0..(NUM_DIRECTION_CATEGORIES - 1) |-> 0]

Event(type, slot, id) ==
    [type |-> type, slot |-> slot, id |-> id, j |-> 0, diff |-> 0, ok |-> TRUE,
     tx |-> 0, ty |-> 0, delta |-> NoDelta, ndf |-> 0, upd |-> FALSE,
     from |-> slot, snap |-> TBClear(TrackedBlobZero)]

\* The event of a track that was in slot from, with the track as it was when
\* the event happened
Snap(e, from, t) == [e EXCEPT !.from = from, !.snap = t]

\* update_blob(new_blobs[j]) called on slot: diff is the matrix entry, ok
\* tells that the slot and the blob were both active
MatchEvent(slot, id, j, diff, ok) ==
    [Event("match", slot, id) EXCEPT !.j = j, !.diff = diff, !.ok = ok]

\* process_blob_movements ran (counters, then the tracking_end_callback):
\* delta is the change of movements, ok the flag afterwards
EndEvent(slot, id, tx, ty, delta, ok) ==
    [Event("end", slot, id) EXCEPT !.tx = tx, !.ty = ty, !.delta = delta, !.ok = ok]

\* sort_tracked_blobs kept an active track, now in slot
KeepEvent(slot, id, ndf, upd) ==
    [Event("keep", slot, id) EXCEPT !.ndf = ndf, !.upd = upd]

\* set(new_blobs[j], id) called on slot, then the tracking_start_callback:
\* ok tells that the slot held no active track
StartEvent(slot, id, j, ok) ==
    [Event("start", slot, id) EXCEPT !.j = j, !.ok = ok]

\* generate_difference_matrix scoring a pair with an inactive side as a
\* perfect match
generate_difference_matrix_unguarded(tb, blobs, max_difference_threshold) ==
    [i \in Slots |-> [j \in Slots |->
        IF BlobIsActive(blobs[j]) /\ TBIsActive(tb[i])
        THEN get_difference(tb[i], blobs[j])
        ELSE 0]]

\* ThermalTracker::generate_difference_matrix
generate_difference_matrix(tb, blobs, max_difference_threshold) ==
    [i \in Slots |-> [j \in Slots |->
        IF BlobIsActive(blobs[j]) /\ TBIsActive(tb[i])
        THEN get_difference(tb[i], blobs[j])
        ELSE ToFloat(max_difference_threshold)]]

\* get_lowest_difference keeping the last entry that holds the least value
get_lowest_difference_last(dm, max_difference_threshold) ==
    LET below == {k \in 0..(MAX_BLOBS * MAX_BLOBS - 1) :
                     dm[k \div MAX_BLOBS][k % MAX_BLOBS]
                         < ToFloat(max_difference_threshold)}
        val(k) == dm[k \div MAX_BLOBS][k % MAX_BLOBS]
        least == {k \in below : \A k2 \in below : val(k) <= val(k2)}
        last == CHOOSE k \in least : \A k2 \in least : k >= k2
    IN IF below = {}
       THEN [lowest |-> ToFloat(max_difference_threshold),
             x_index |-> 0 - 1, y_index |-> 0 - 1]
       ELSE [lowest |-> val(last), x_index |-> last \div MAX_BLOBS,
             y_index |-> last % MAX_BLOBS]

\* ThermalTracker::get_lowest_difference - the nested loops keep the first
\* entry (row-major) that holds the least value below the threshold
get_lowest_difference(dm, max_difference_threshold) ==
    LET below == {k \in 0..(MAX_BLOBS * MAX_BLOBS - 1) :
                     dm[k \div MAX_BLOBS][k % MAX_BLOBS]
                         < ToFloat(max_difference_threshold)}
        val(k) == dm[k \div MAX_BLOBS][k % MAX_BLOBS]
        least == {k \in below : \A k2 \in below : val(k) <= val(k2)}
        first == CHOOSE k \in least : \A k2 \in least : k <= k2
    IN IF below = {}
       THEN [lowest |-> ToFloat(max_difference_threshold),
             x_index |-> 0 - 1, y_index |-> 0 - 1]
       ELSE [lowest |-> val(first), x_index |-> first \div MAX_BLOBS,
             y_index |-> first % MAX_BLOBS]

\* remove_difference_row_col leaving the column of the blob in the matrix
remove_difference_row_only(row, col, dm, max_difference_threshold) ==
    [i \in Slots |-> [j \in Slots |->
        IF i = row THEN ToFloat(max_difference_threshold) ELSE dm[i][j]]]

\* ThermalTracker::remove_difference_row_col
remove_difference_row_col(row, col, dm, max_difference_threshold) ==
    [i \in Slots |-> [j \in Slots |->
        IF i = row \/ j = col THEN ToFloat(max_difference_threshold) ELSE dm[i][j]]]

\* while (difference < max_difference_threshold) of update_tracked_blobs
RECURSIVE MatchLoop(_, _, _, _)
MatchLoop(st, dm, max_difference_threshold, now) ==
    LET low == get_lowest_difference(dm, max_difference_threshold)
        i == low.x_index
        j == low.y_index
    IN IF ~(low.lowest < ToFloat(max_difference_threshold)) THEN st
       ELSE MatchLoop(
                [st EXCEPT !.tb[i] = update_blob(@, st.bl[j], now),
                           !.bl[j] = BlobSetAssigned(@),
                           !.ev = Append(@, MatchEvent(i, st.tb[i].id, j, low.lowest,
                                      TBIsActive(st.tb[i]) /\ BlobIsActive(st.bl[j])))],
                remove_difference_row_col(i, j, dm, max_difference_threshold),
                max_difference_threshold, now)

\* ThermalTracker::update_tracked_blobs
update_tracked_blobs(st, max_difference_threshold, now) ==
    LET st1 == [st EXCEPT !.tb = [i \in Slots |-> reset_updated_status(st.tb[i])],
                          !.bl = [i \in Slots |-> BlobClearAssigned(st.bl[i])]]
        dm == generate_difference_matrix(st1.tb, st1.bl, max_difference_threshold)
    IN MatchLoop(st1, dm, max_difference_threshold, now)

\* ThermalTracker::add_movement (constrain(direction, 0, 4))
add_movement(st, direction) ==
    LET d == Max2(0, Min2(4, direction))
    IN [st EXCEPT !.mv[d] = @ + 1, !.chg = TRUE]

\* process_blob_movements with the horizontal directions exchanged
process_blob_movements_mirrored(st, i, minimum_travel_threshold) ==
    LET blob == st.tb[i]
        T == ToFloat(minimum_travel_threshold)
        horizontal == abs(get_travel_x(blob)) > T
        vertical == abs(get_travel_y(blob)) > T
        s1 == IF horizontal
              THEN IF get_travel_x(blob) < 0 THEN add_movement(st, RIGHT)
                   ELSE add_movement(st, LEFT)
              ELSE st
        s2 == IF vertical
              THEN IF get_travel_y(blob) > 0 THEN add_movement(s1, UP)
                   ELSE add_movement(s1, DOWN)
              ELSE s1
        s3 == IF ~(horizontal \/ vertical) THEN add_movement(s2, NO_DIRECTION) ELSE s2
    IN [s3 EXCEPT !.ev = Append(@, Snap(EndEvent(i, blob.id, blob.travel_x, blob.travel_y,
                                 [d \in DOMAIN NoDelta |-> s3.mv[d] - st.mv[d]], s3.chg),
                                 i, blob))]

\* process_blob_movements counting one direction per track (the vertical
\* axis only when the horizontal one did not trigger)
process_blob_movements_single(st, i, minimum_travel_threshold) ==
    LET blob == st.tb[i]
        T == ToFloat(minimum_travel_threshold)
        horizontal == abs(get_travel_x(blob)) > T
        vertical == abs(get_travel_y(blob)) > T
        s1 == IF horizontal
              THEN IF get_travel_x(blob) < 0 THEN add_movement(st, LEFT)
                   ELSE add_movement(st, RIGHT)
              ELSE IF vertical
              THEN IF get_travel_y(blob) > 0 THEN add_movement(st, UP)
                   ELSE add_movement(st, DOWN)
              ELSE add_movement(st, NO_DIRECTION)
    IN [s1 EXCEPT !.ev = Append(@, Snap(EndEvent(i, blob.id, blob.travel_x, blob.travel_y,
                                 [d \in DOMAIN NoDelta |-> s1.mv[d] - st.mv[d]], s1.chg),
                                 i, blob))]

\* ThermalTracker::process_blob_movements, for the track in slot i
process_blob_movements(st, i, minimum_travel_threshold) ==
    LET blob == st.tb[i]
        T == ToFloat(minimum_travel_threshold)
        horizontal == abs(get_travel_x(blob)) > T
        vertical == abs(get_travel_y(blob)) > T
        s1 == IF horizontal
              THEN IF get_travel_x(blob) < 0 THEN add_movement(st, LEFT)
                   ELSE add_movement(st, RIGHT)
              ELSE st
        s2 == IF vertical
              THEN IF get_travel_y(blob) > 0 THEN add_movement(s1, UP)
                   ELSE add_movement(s1, DOWN)
              ELSE s1
        s3 == IF ~(horizontal \/ vertical) THEN add_movement(s2, NO_DIRECTION) ELSE s2
    IN [s3 EXCEPT !.ev = Append(@, Snap(EndEvent(i, blob.id, blob.travel_x, blob.travel_y,
                                 [d \in DOMAIN NoDelta |-> s3.mv[d] - st.mv[d]], s3.chg),
                                 i, blob))]

\* The for loop of sort_tracked_blobs that never records a freed slot
RECURSIVE SortLoop_no_free(_, _, _, _, _)
SortLoop_no_free(st, i, free_index, max_dead_frames, minimum_travel_threshold) ==
    IF i = MAX_BLOBS THEN st
    ELSE LET aged == IF ~st.tb[i].has_updated
                     THEN [st EXCEPT !.tb[i].num_dead_frames = @ + 1]
                     ELSE st
             t == aged.tb[i]
         IN IF t.has_updated \/ t.num_dead_frames < max_dead_frames
            THEN SortLoop_no_free([aged EXCEPT !.ev = IF TBIsActive(t)
                                                      THEN Append(@, Snap(KeepEvent(i, t.id,
                                                               t.num_dead_frames, t.has_updated), i, t))
                                                      ELSE @],
                                  i + 1, free_index, max_dead_frames,
                                  minimum_travel_threshold)
            ELSE LET done == IF TBIsActive(t)
                             THEN process_blob_movements(aged, i, minimum_travel_threshold)
                             ELSE aged
                 IN SortLoop_no_free([done EXCEPT !.tb[i] = TBClear(@)],
                                     i + 1, free_index, max_dead_frames,
                                     minimum_travel_threshold)

\* The for loop of sort_tracked_blobs
RECURSIVE SortLoop(_, _, _, _, _)
SortLoop(st, i, free_index, max_dead_frames, minimum_travel_threshold) ==
    IF i = MAX_BLOBS THEN st
    ELSE LET aged == IF ~st.tb[i].has_updated
                     THEN [st EXCEPT !.tb[i].num_dead_frames = @ + 1]
                     ELSE st
             t == aged.tb[i]
         IN IF t.has_updated \/ t.num_dead_frames < max_dead_frames
            THEN IF free_index < i
                 THEN SortLoop([aged EXCEPT !.tb[free_index] = TBCopy(@, t),
                                            !.tb[i] = TBClear(t),
                                            !.ev = IF TBIsActive(t)
                                                   THEN Append(@, Snap(KeepEvent(free_index, t.id,
                                                                  t.num_dead_frames, t.has_updated), i, t))
                                                   ELSE @],
                               i + 1, free_index + 1, max_dead_frames,
                               minimum_travel_threshold)
                 ELSE SortLoop([aged EXCEPT !.ev = IF TBIsActive(t)
                                                   THEN Append(@, Snap(KeepEvent(i, t.id,
                                                                  t.num_dead_frames, t.has_updated), i, t))
                                                   ELSE @],
                               i + 1, free_index, max_dead_frames,
                               minimum_travel_threshold)
            ELSE LET done == IF TBIsActive(t)
                             THEN process_blob_movements(aged, i, minimum_travel_threshold)
                             ELSE aged
                 IN SortLoop([done EXCEPT !.tb[i] = TBClear(@)],
                             i + 1, IF free_index > i THEN i ELSE free_index,
                             max_dead_frames, minimum_travel_threshold)

\* sort_tracked_blobs retaining a track while num_dead_frames <= max_dead_frames
sort_tracked_blobs_inclusive(st, max_dead_frames, minimum_travel_threshold) ==
    SortLoop(st, 0, MAX_BLOBS + 1, max_dead_frames + 1, minimum_travel_threshold)

\* sort_tracked_blobs not seeing the matches of the frame
sort_tracked_blobs_forgetful(st, max_dead_frames, minimum_travel_threshold) ==
    SortLoop([st EXCEPT !.tb = [i \in Slots |-> reset_updated_status(st.tb[i])]],
             0, MAX_BLOBS + 1, max_dead_frames, minimum_travel_threshold)

\* ThermalTracker::sort_tracked_blobs
sort_tracked_blobs(st, max_dead_frames, minimum_travel_threshold) ==
    SortLoop(st, 0, MAX_BLOBS + 1, max_dead_frames, minimum_travel_threshold)

\* ThermalTracker::get_num_updated_blobs
get_num_updated_blobs(tb) == Cardinality({i \in Slots : tb[i].has_updated})

\* ThermalTracker::get_num_unassigned_blobs
get_num_unassigned_blobs(blobs) ==
    Cardinality({i \in Slots : BlobIsActive(blobs[i]) /\ ~BlobIsAssigned(blobs[i])})

\* while (num_unassigned_blobs > 0 && i < MAX_BLOBS) of
\* add_remaining_blobs_to_tracked
RECURSIVE AddLoop(_, _, _, _, _)
AddLoop(st, i, num_updated_blobs, num_unassigned_blobs, now) ==
    IF ~(num_unassigned_blobs > 0 /\ i < MAX_BLOBS) THEN st
    ELSE IF BlobIsActive(st.bl[i]) /\ ~BlobIsAssigned(st.bl[i])
         THEN AddLoop(
                  [st EXCEPT !.tb[num_updated_blobs] = TBSet(@, st.bl[i], st.tid, now),
                             !.tid = @ + 1,
                             !.bl[i] = BlobSetAssigned(@),
                             !.ev = Append(@, StartEvent(num_updated_blobs, st.tid, i,
                                        ~TBIsActive(st.tb[num_updated_blobs])))],
                  i + 1, num_updated_blobs + 1, num_unassigned_blobs - 1, now)
         ELSE AddLoop(st, i + 1, num_updated_blobs, num_unassigned_blobs, now)

\* ThermalTracker::add_remaining_blobs_to_tracked
add_remaining_blobs_to_tracked(st, now) ==
    AddLoop(st, 0, get_num_updated_blobs(st.tb), get_num_unassigned_blobs(st.bl), now)

\* track_blobs promoting the unassigned blobs before the table is sorted
track_blobs_promote_first(st, max_difference_threshold, max_dead_frames, minimum_travel_threshold, now) ==
    IF get_num_tracked_blobs(st.tb) > 0
    THEN sort_tracked_blobs(
             add_remaining_blobs_to_tracked(
                 update_tracked_blobs(st, max_difference_threshold, now), now),
             max_dead_frames, minimum_travel_threshold)
    ELSE add_remaining_blobs_to_tracked(st, now)

\* track_blobs leaving the table alone in a frame without new blobs
track_blobs_skip_quiet(st, max_difference_threshold, max_dead_frames, minimum_travel_threshold, now) ==
    LET tracked == IF get_num_tracked_blobs(st.tb) > 0 /\ get_num_unassigned_blobs(st.bl) > 0
                   THEN sort_tracked_blobs(
                            update_tracked_blobs(st, max_difference_threshold, now),
                            max_dead_frames, minimum_travel_threshold)
                   ELSE st
    IN add_remaining_blobs_to_tracked(tracked, now)

\* ThermalTracker::track_blobs
track_blobs(st, max_difference_threshold, max_dead_frames, minimum_travel_threshold, now) ==
    LET tracked == IF get_num_tracked_blobs(st.tb) > 0
                   THEN sort_tracked_blobs(
                            update_tracked_blobs(st, max_difference_threshold, now),
                            max_dead_frames, minimum_travel_threshold)
                   ELSE st
    IN add_remaining_blobs_to_tracked(tracked, now)

\* ------------------------------------------------------------------------
\* ThermalTracker: background

\* The readiness test with a strict comparison
is_background_finished_late(n, size) == n > size

\* ThermalTracker::is_background_finished
is_background_finished(n, size) == n >= size

\* The accumulation without the restart at num_background_frames = 0
build_accumulate_keep(frm, averages, variance, n) ==
    LET avg1 == [i \in Rows |-> [j \in Cols |->
                    FAdd(averages[i][j],
                         FDivInt(FSub(frm[i][j], averages[i][j]), n + 1))]]
    IN [averages |-> avg1,
        variance |-> [i \in Rows |-> [j \in Cols |->
                        FAdd(variance[i][j],
                             FMul(FSub(frm[i][j], avg1[i][j]),
                                  FSub(frm[i][j], averages[i][j])))]],
        n |-> n + 1]

\* ThermalTracker::build_background up to num_background_frames++: the new
\* averages, the Welford accumulators and the new num_background_frames
build_accumulate(frm, averages, variance, n) ==
    LET avg1 == [i \in Rows |-> [j \in Cols |->
                    IF n = 0 THEN frm[i][j]
                    ELSE FAdd(averages[i][j],
                              FDivInt(FSub(frm[i][j], averages[i][j]), n + 1))]]
    IN [averages |-> avg1,
        variance |-> [i \in Rows |-> [j \in Cols |->
                        IF n = 0 THEN 0
                        ELSE FAdd(variance[i][j],
                                  FMul(FSub(frm[i][j], avg1[i][j]),
                                       FSub(frm[i][j], averages[i][j])))]],
        n |-> n + 1]

\* The conversion of the accumulators to standard deviations that ends
\* build_background
build_deviation(variance, n) ==
    [i \in Rows |-> [j \in Cols |-> sqrtf(FDivInt(variance[i][j], n - 1))]]

\* ThermalTracker::build_background - returns the new averages, variance
\* and num_background_frames
build_background(frm, averages, variance, n, size) ==
    LET acc == build_accumulate(frm, averages, variance, n)
    IN [acc EXCEPT !.variance = IF acc.n = size THEN build_deviation(@, acc.n) ELSE @]

\* ThermalTracker::add_current_frame_to_background
add_current_frame_to_background(frm, averages, variance, size) ==
    LET avg1 == [i \in Rows |-> [j \in Cols |->
                    FDivInt(FAdd(FMulInt(averages[i][j], size - 1), frm[i][j]), size)]]
    IN [averages |-> avg1,
        variance |-> [i \in Rows |-> [j \in Cols |->
                        FDivInt(FAdd(FMulInt(variance[i][j], size - 1),
                                     absolute(FSub(frm[i][j], avg1[i][j]))), size)]]]

\* ------------------------------------------------------------------------
\* Bounds of the model and the frames fed to update()
MaxFrames == 6
MaxHostCalls == 1
BuildSize == 2
AmbientTemp == 22
WarmTemp == 30
HotTemp == 75

\* Three-pixel objects, pairwise non-adjacent under the default fuzz
ObjA1 == {<<0, 1>>, <<0, 2>>, <<0, 3>>}
ObjA2 == {<<3, 8>>, <<3, 9>>, <<3, 10>>}
ObjV1 == {<<0, 12>>, <<0, 13>>, <<0, 14>>}
ObjV2 == {<<3, 13>>, <<3, 14>>, <<3, 15>>}

SceneFrame(warm, hot) ==
    [i \in Rows |-> [j \in Cols |->
        IF <<i, j>> \in hot THEN ToFloat(HotTemp)
        ELSE IF <<i, j>> \in warm THEN ToFloat(WarmTemp)
        ELSE ToFloat(AmbientTemp)]]

QuietFrame == SceneFrame({}, {})

Scenes ==
    { QuietFrame,
      SceneFrame(ObjA1, {}), SceneFrame(ObjA2, {}), SceneFrame({}, ObjV1),
      SceneFrame(ObjA1 \cup ObjA2, {}), SceneFrame(ObjA1, ObjV1),
      SceneFrame({}, ObjV1 \cup ObjV2) }

MaxDeadFramesChoices == {0, 1, 2, 3}
TravelThresholdChoices == {2, DEFAULT_MIN_TRAVEL_THRESHOLD}
RunningAverageChoices == {1, BuildSize}

\* The configurations explored: <<max_dead_frames, minimum_travel_threshold>>
Configs ==
    {c \in MaxDeadFramesChoices \X TravelThresholdChoices :
        (c[1] <= 1) = (c[2] = DEFAULT_MIN_TRAVEL_THRESHOLD)}

\* ------------------------------------------------------------------------
\* State of the tracker, of its environment (millis) and the history kept
\* for the properties: the call log of the last update (events), whether it
\* was a steady-state update (tracked), the tracks finalised since the last
\* reset_movements (num_finalised, and num_diagonal of them on both axes) and
\* since construction (num_ended), the consecutive unmatched steady-state
\* frames of each track (misses), the consecutive steady-state frames without
\* blobs (num_quiet_frames), the array accesses of the last get_blobs
\* (accesses), the tracks finalised since the last get_movements (num_unread),
\* what the calls last returned to the host (host_out: the array filled by
\* get_movements, the value of has_new_movements), and the calls made
\* (num_updates, host_calls), the matches and the longest run of unmatched
\* steady-state frames of each track (lifetimes); tblob is one TrackedBlob
\* driven on its own, other_blob the blob it was last scored against,
\* difference the fields get_difference left in tblob and its result,
\* abs_moved the sum of the absolute movements of its matches and
\* num_tblob_calls the calls made on it; blob_array is a Blob[MAX_BLOBS] handed to
\* remove_small_blobs on its own, num_prunes the calls made on it
VARIABLES
    running_average_size, min_blob_size, minimum_travel_threshold,
    max_difference_threshold, max_dead_frames,
    num_background_frames, frame, pixel_averages, pixel_variance,
    tracked_blobs, movements, movement_changed_since_last_check,
    num_unchanged_frames, num_last_blobs, track_id,
    millis, events, tracked, num_finalised, num_diagonal, num_ended, misses,
    num_quiet_frames, accesses, num_unread, host_out, num_updates, host_calls,
    lifetimes, blob_array, num_prunes,
    tblob, other_blob, difference, abs_moved, num_tblob_calls

config_vars == <<running_average_size, min_blob_size, minimum_travel_threshold,
                 max_difference_threshold, max_dead_frames>>
background_vars == <<num_background_frames, frame, pixel_averages, pixel_variance>>
tracking_vars == <<tracked_blobs, num_unchanged_frames, num_last_blobs, track_id>>
movement_vars == <<movements, movement_changed_since_last_check>>
history_vars == <<events, tracked, num_finalised, num_diagonal, num_ended, misses,
                  num_quiet_frames, accesses, num_unread, lifetimes>>
prune_vars == <<blob_array, num_prunes>>
tblob_vars == <<tblob, other_blob, difference, abs_moved, num_tblob_calls>>
vars == <<config_vars, background_vars, tracking_vars, movement_vars,
          millis, history_vars, host_out, num_updates, host_calls, prune_vars, tblob_vars>>

ZeroFrame == [i \in Rows |-> [j \in Cols |-> 0]]

\* The fields that get_difference leaves in the TrackedBlob, and its result
NoDifference ==
    [edge_penalty |-> 0, position_difference |-> 0, area_difference |-> 0,
     aspect_ratio_difference |-> 0, temperature_difference |-> 0,
     direction_difference |-> 0, dead_frame_difference |-> 0,
     difference_factor |-> 0]

DifferenceFields(t, b) ==
    [edge_penalty |-> get_edge_penalty(t, b.centroid_x),
     position_difference |->
         calculate_position_difference(t, b, get_edge_penalty(t, b.centroid_x)),
     area_difference |->
         calculate_area_difference(t, b, get_edge_penalty(t, b.centroid_x)),
     aspect_ratio_difference |->
         calculate_aspect_ratio_difference(t, b, get_edge_penalty(t, b.centroid_x)),
     temperature_difference |-> calculate_temperature_difference(t, b),
     direction_difference |-> calculate_direction_difference(t, b),
     dead_frame_difference |-> calculate_dead_frame_difference(t),
     difference_factor |-> get_difference(t, b)]

\* ThermalTracker::ThermalTracker() on zero-initialised static storage
Init ==
    /\ running_average_size \in RunningAverageChoices
    /\ min_blob_size = DEFAULT_MIN_BLOB_SIZE
    /\ \E c \in Configs : /\ max_dead_frames = c[1]
                          /\ minimum_travel_threshold = c[2]
    /\ max_difference_threshold = DEFAULT_MAX_DIFFERENCE_THRESHOLD
    /\ num_background_frames = 0
    /\ frame = ZeroFrame
    /\ pixel_averages = ZeroFrame
    /\ pixel_variance = ZeroFrame
    /\ tracked_blobs = [i \in Slots |-> TBClear(TrackedBlobZero)]
    /\ movements = NoDelta
    /\ movement_changed_since_last_check = FALSE
    /\ num_unchanged_frames = 0
    /\ num_last_blobs = 0
    /\ track_id = 0
    /\ millis = 0
    /\ events = <<>>
    /\ tracked = FALSE
    /\ num_finalised = 0
    /\ num_diagonal = 0
    /\ num_ended = 0
    /\ misses = <<>>
    /\ lifetimes = <<>>
    /\ num_quiet_frames = 0
    /\ accesses = [reads_ok |-> TRUE, pool_ok |-> TRUE]
    /\ num_unread = 0
    /\ host_out = [movements |-> NoDelta, has_new |-> FALSE]
    /\ num_updates = 0
    /\ host_calls = 0
    /\ blob_array = [i \in Slots |-> BlobClear]
    /\ num_prunes = 0
    /\ tblob = TBClear(TrackedBlobZero)
    /\ other_blob = BlobClear
    /\ difference = NoDifference
    /\ abs_moved = [x |-> 0, y |-> 0]
    /\ num_tblob_calls = 0

\* The events of one type in a call log
EventsOf(ev, type) == {k \in DOMAIN ev : ev[k].type = type}

IdsOf(ev, type) == {ev[k].id : k \in EventsOf(ev, type)}

ActiveIds(tb) == {tb[i].id : i \in {s \in Slots : TBIsActive(tb[s])}}

\* An ended track moved more than the threshold on both axes
IsDiagonal(e, threshold) ==
    /\ absolute(e.tx) > ToFloat(threshold)
    /\ absolute(e.ty) > ToFloat(threshold)

\* Consecutive steady-state frames without a match, per id in the table,
\* counted from the call log
MissesAfter(old, tb, ev) ==
    [id \in ActiveIds(tb) |->
        IF id \in IdsOf(ev, "start") \/ id \in IdsOf(ev, "match") THEN 0
        ELSE IF id \in DOMAIN old THEN old[id] + 1 ELSE 1]

\* The update_blob calls received since set() and the longest run of
\* steady-state frames without one, per id in the table, counted from the
\* call log
LifetimesAfter(old, old_misses, tb, ev) ==
    [id \in ActiveIds(tb) |->
        IF id \in IdsOf(ev, "start") \/ id \notin DOMAIN old
        THEN [matches |-> 0, longest |-> 0]
        ELSE IF id \in IdsOf(ev, "match")
        THEN [old[id] EXCEPT !.matches = @ + 1]
        ELSE [old[id] EXCEPT !.longest = Max2(@, old_misses[id] + 1)]]

\* The activity check of update(): the frame is kept out of the background
\* while there are blobs, until they have stayed for UNCHANGED_FRAME_DELAY frames
activity_check_early(num_blobs, unchanged) ==
    IF num_blobs > 0
    THEN [add_frame_to_average |-> unchanged + 1 >= UNCHANGED_FRAME_DELAY,
          num_unchanged_frames |-> unchanged + 1]
    ELSE [add_frame_to_average |-> TRUE, num_unchanged_frames |-> 0]

activity_check(num_blobs, unchanged) ==
    IF num_blobs > 0
    THEN [add_frame_to_average |-> unchanged + 1 > UNCHANGED_FRAME_DELAY,
          num_unchanged_frames |-> unchanged + 1]
    ELSE [add_frame_to_average |-> TRUE, num_unchanged_frames |-> 0]

\* ThermalTracker::update(frame_buffer) on the tracker state S, with the
\* clock reading now: the new values of the fields it writes and the call log
update(S, f, now) ==
    IF ~is_background_finished(S.num_background_frames, S.running_average_size)
    THEN LET b == build_background(f, S.pixel_averages, S.pixel_variance,
                                   S.num_background_frames, S.running_average_size)
         IN [S EXCEPT !.frame = f,
                      !.pixel_averages = b.averages,
                      !.pixel_variance = b.variance,
                      !.num_background_frames = b.n,
                      !.tracked = FALSE,
                      !.events = <<>>]
    ELSE LET found == get_blobs(f, S.pixel_averages, S.pixel_variance,
                                DEFAULT_ADJACENCY_FUZZ)
             blobs == remove_small_blobs(found.blobs, S.min_blob_size)
             num_blobs == get_num_blobs(blobs)
             gate == activity_check(num_blobs, S.num_unchanged_frames)
             st == track_blobs([tb |-> S.tracked_blobs, bl |-> blobs,
                                mv |-> S.movements,
                                chg |-> S.movement_changed_since_last_check,
                                tid |-> S.track_id, ev |-> <<>>],
                               S.max_difference_threshold, S.max_dead_frames,
                               S.minimum_travel_threshold, now)
             bg == IF gate.add_frame_to_average
                   THEN add_current_frame_to_background(f, S.pixel_averages,
                            S.pixel_variance, S.running_average_size)
                   ELSE [averages |-> S.pixel_averages, variance |-> S.pixel_variance]
         IN [S EXCEPT !.frame = f,
                      !.num_unchanged_frames = gate.num_unchanged_frames,
                      !.num_last_blobs = num_blobs,
                      !.tracked_blobs = st.tb,
                      !.movements = st.mv,
                      !.movement_changed_since_last_check = st.chg,
                      !.track_id = st.tid,
                      !.pixel_averages = bg.averages,
                      !.pixel_variance = bg.variance,
                      !.tracked = TRUE,
                      !.reads_ok = found.reads_ok,
                      !.pool_ok = found.pool_ok,
                      !.events = st.ev]

\* The tracker as a record
Tracker ==
    [running_average_size |-> running_average_size,
     min_blob_size |-> min_blob_size,
     minimum_travel_threshold |-> minimum_travel_threshold,
     max_difference_threshold |-> max_difference_threshold,
     max_dead_frames |-> max_dead_frames,
     num_background_frames |-> num_background_frames,
     frame |-> frame,
     pixel_averages |-> pixel_averages,
     pixel_variance |-> pixel_variance,
     tracked_blobs |-> tracked_blobs,
     movements |-> movements,
     movement_changed_since_last_check |-> movement_changed_since_last_check,
     num_unchanged_frames |-> num_unchanged_frames,
     num_last_blobs |-> num_last_blobs,
     track_id |-> track_id,
     tracked |-> FALSE,
     reads_ok |-> TRUE,
     pool_ok |-> TRUE,
     events |-> <<>>]

\* The host calls tracker.update(f) when the clock reads now
Update(f, now) ==
    /\ num_updates' = num_updates + 1
    /\ millis' = now
    /\ \E r \in {update(Tracker, f, now)} :
        /\ frame' = r.frame
        /\ pixel_averages' = r.pixel_averages
        /\ pixel_variance' = r.pixel_variance
        /\ num_background_frames' = r.num_background_frames
        /\ num_unchanged_frames' = r.num_unchanged_frames
        /\ num_last_blobs' = r.num_last_blobs
        /\ tracked_blobs' = r.tracked_blobs
        /\ movements' = r.movements
        /\ movement_changed_since_last_check' = r.movement_changed_since_last_check
        /\ track_id' = r.track_id
        /\ events' = r.events
        /\ tracked' = r.tracked
        /\ num_finalised' = num_finalised + Cardinality(EventsOf(r.events, "end"))
        /\ num_diagonal' = num_diagonal
               + Cardinality({k \in EventsOf(r.events, "end") :
                                 IsDiagonal(r.events[k], minimum_travel_threshold)})
        /\ num_ended' = num_ended + Cardinality(EventsOf(r.events, "end"))
        /\ num_quiet_frames' = IF ~r.tracked THEN num_quiet_frames
                               ELSE IF r.num_last_blobs = 0 THEN num_quiet_frames + 1
                               ELSE 0
        /\ lifetimes' = IF r.tracked
                        THEN LifetimesAfter(lifetimes, misses, r.tracked_blobs, r.events)
                        ELSE lifetimes
        /\ misses' = IF r.tracked
                     THEN MissesAfter(misses, r.tracked_blobs, r.events)
                     ELSE misses
        /\ accesses' = [reads_ok |-> r.reads_ok, pool_ok |-> r.pool_ok]
        /\ num_unread' = num_unread + Cardinality(EventsOf(r.events, "end"))
    /\ UNCHANGED <<config_vars, host_out, host_calls, prune_vars, tblob_vars>>

\* ThermalTracker::reset_background
ResetBackground ==
    /\ host_calls < MaxHostCalls
    /\ host_calls' = host_calls + 1
    /\ num_background_frames' = 0
    /\ UNCHANGED <<config_vars, frame, pixel_averages, pixel_variance, tracking_vars,
                   movement_vars, millis, history_vars, host_out, num_updates,
                   prune_vars, tblob_vars>>

\* The copy in the opposite order
copy_movements_reversed(mv) == [i \in 0..4 |-> mv[4 - i]]

\* The for loop of get_movements: _movements[i] = movements[i]
copy_movements(mv) == [i \in 0..4 |-> mv[i]]

\* ThermalTracker::get_movements (the copy goes to the caller's array)
GetMovements ==
    /\ host_calls < MaxHostCalls
    /\ host_calls' = host_calls + 1
    /\ host_out' = [host_out EXCEPT !.movements = copy_movements(movements)]
    /\ movement_changed_since_last_check' = FALSE
    /\ num_unread' = 0
    /\ UNCHANGED <<config_vars, background_vars, tracking_vars, movements, millis,
                   events, tracked, num_finalised, num_diagonal, num_ended, misses,
                   num_quiet_frames, accesses, lifetimes, num_updates, prune_vars,
                   tblob_vars>>

\* ThermalTracker::has_new_movements (the value goes to the caller)
HasNewMovements ==
    /\ host_calls < MaxHostCalls
    /\ host_calls' = host_calls + 1
    /\ host_out' = [host_out EXCEPT !.has_new = movement_changed_since_last_check]
    /\ UNCHANGED <<config_vars, background_vars, tracking_vars, movement_vars, millis,
                   history_vars, num_updates, prune_vars, tblob_vars>>

\* ThermalTracker::reset_movements; the history counts restart with it
ResetMovements ==
    /\ host_calls < MaxHostCalls
    /\ host_calls' = host_calls + 1
    /\ movements' = NoDelta
    /\ num_finalised' = 0
    /\ num_diagonal' = 0
    /\ UNCHANGED <<config_vars, background_vars, tracking_vars,
                   movement_changed_since_last_check, millis,
                   events, tracked, num_ended, misses, num_quiet_frames, accesses,
                   num_unread, lifetimes, host_out, num_updates, prune_vars,
                   tblob_vars>>

BuildFrames == {QuietFrame}

UpdateAny ==
    /\ num_updates < MaxFrames
    /\ \E f \in Scenes :
        /\ ~is_background_finished(num_background_frames, running_average_size)
               => f \in BuildFrames
        /\ Update(f, millis + 1)

Next ==
    \/ UpdateAny
    \/ ResetBackground
    \/ GetMovements
    \/ HasNewMovements
    \/ ResetMovements

Spec == Init /\ [][Next]_vars

\* ------------------------------------------------------------------------
\* The tracker fed with frames that probe the extractor and the background:
\* a single hot pixel, more connected groups than MAX_BLOBS, a NaN pixel, and
\* background frames that differ

MaxProbeFrames == 4

Speck == {<<2, 6>>}

\* Four pairs in the top row, six single pixels in the bottom row, pairwise
\* non-adjacent under the default fuzz
Crowd ==
    {<<0, 0>>, <<0, 1>>, <<0, 4>>, <<0, 5>>, <<0, 8>>, <<0, 9>>, <<0, 12>>, <<0, 13>>,
     <<3, 0>>, <<3, 3>>, <<3, 6>>, <<3, 9>>, <<3, 12>>, <<3, 15>>}

\* A frame whose pixel [1][5] is NaN
NaNFrame(f) == [f EXCEPT ![1][5] = NaN]

ProbeBuildFrames ==
    {QuietFrame, SceneFrame(ObjA1, {}), NaNFrame(QuietFrame)}

ProbeScenes ==
    { QuietFrame, SceneFrame({}, Speck), SceneFrame(ObjA1, Speck),
      SceneFrame({}, Crowd), NaNFrame(QuietFrame), NaNFrame(SceneFrame(ObjA1, {})) }

MinBlobSizeChoices == {1, DEFAULT_MIN_BLOB_SIZE}

InitProbe ==
    /\ running_average_size \in RunningAverageChoices
    /\ min_blob_size \in MinBlobSizeChoices
    /\ minimum_travel_threshold = DEFAULT_MIN_TRAVEL_THRESHOLD
    /\ max_difference_threshold = DEFAULT_MAX_DIFFERENCE_THRESHOLD
    /\ max_dead_frames = DEFAULT_MAX_DEAD_FRAMES
    /\ num_background_frames = 0
    /\ frame = ZeroFrame
    /\ pixel_averages = ZeroFrame
    /\ pixel_variance = ZeroFrame
    /\ tracked_blobs = [i \in Slots |-> TBClear(TrackedBlobZero)]
    /\ movements = NoDelta
    /\ movement_changed_since_last_check = FALSE
    /\ num_unchanged_frames = 0
    /\ num_last_blobs = 0
    /\ track_id = 0
    /\ millis = 0
    /\ events = <<>>
    /\ tracked = FALSE
    /\ num_finalised = 0
    /\ num_diagonal = 0
    /\ num_ended = 0
    /\ misses = <<>>
    /\ lifetimes = <<>>
    /\ num_quiet_frames = 0
    /\ accesses = [reads_ok |-> TRUE, pool_ok |-> TRUE]
    /\ num_unread = 0
    /\ host_out = [movements |-> NoDelta, has_new |-> FALSE]
    /\ num_updates = 0
    /\ host_calls = 0
    /\ blob_array = [i \in Slots |-> BlobClear]
    /\ num_prunes = 0
    /\ tblob = TBClear(TrackedBlobZero)
    /\ other_blob = BlobClear
    /\ difference = NoDifference
    /\ abs_moved = [x |-> 0, y |-> 0]
    /\ num_tblob_calls = 0

UpdateProbe ==
    /\ num_updates < MaxProbeFrames
    /\ \E f \in ProbeBuildFrames \cup ProbeScenes :
        /\ IF is_background_finished(num_background_frames, running_average_size)
           THEN f \in ProbeScenes
           ELSE f \in ProbeBuildFrames
        /\ Update(f, millis + 1)

NextProbe ==
    \/ UpdateProbe
    \/ ResetBackground

SpecProbe == InitProbe /\ [][NextProbe]_vars

\* ------------------------------------------------------------------------
\* The tracker watching an object that stays in place for more than
\* UNCHANGED_FRAME_DELAY frames

StaticAverageSize == 5
MaxStaticFrames == 58
MaxEarlyFrames == 3

InitStatic ==
    /\ running_average_size = StaticAverageSize
    /\ min_blob_size = DEFAULT_MIN_BLOB_SIZE
    /\ minimum_travel_threshold = DEFAULT_MIN_TRAVEL_THRESHOLD
    /\ max_difference_threshold = DEFAULT_MAX_DIFFERENCE_THRESHOLD
    /\ max_dead_frames = DEFAULT_MAX_DEAD_FRAMES
    /\ num_background_frames = 0
    /\ frame = ZeroFrame
    /\ pixel_averages = ZeroFrame
    /\ pixel_variance = ZeroFrame
    /\ tracked_blobs = [i \in Slots |-> TBClear(TrackedBlobZero)]
    /\ movements = NoDelta
    /\ movement_changed_since_last_check = FALSE
    /\ num_unchanged_frames = 0
    /\ num_last_blobs = 0
    /\ track_id = 0
    /\ millis = 0
    /\ events = <<>>
    /\ tracked = FALSE
    /\ num_finalised = 0
    /\ num_diagonal = 0
    /\ num_ended = 0
    /\ misses = <<>>
    /\ lifetimes = <<>>
    /\ num_quiet_frames = 0
    /\ accesses = [reads_ok |-> TRUE, pool_ok |-> TRUE]
    /\ num_unread = 0
    /\ host_out = [movements |-> NoDelta, has_new |-> FALSE]
    /\ num_updates = 0
    /\ host_calls = 0
    /\ blob_array = [i \in Slots |-> BlobClear]
    /\ num_prunes = 0
    /\ tblob = TBClear(TrackedBlobZero)
    /\ other_blob = BlobClear
    /\ difference = NoDifference
    /\ abs_moved = [x |-> 0, y |-> 0]
    /\ num_tblob_calls = 0

\* Quiet frames build the background; then the object is in every frame,
\* except that one of the first MaxEarlyFrames steady-state frames may be quiet
UpdateStatic ==
    /\ num_updates < MaxStaticFrames
    /\ \E f \in {QuietFrame, SceneFrame({}, ObjV1)} :
        /\ ~is_background_finished(num_background_frames, running_average_size)
               => f = QuietFrame
        /\ (/\ is_background_finished(num_background_frames, running_average_size)
            /\ f = QuietFrame)
               => num_updates < running_average_size + MaxEarlyFrames
        /\ Update(f, millis + 1)

NextStatic == UpdateStatic

SpecStatic == InitStatic /\ [][NextStatic]_vars

\* ------------------------------------------------------------------------
\* remove_small_blobs applied to blob arrays of any shape: every slot holds
\* either nothing or a blob of PruneSizes pixels that carries its slot in its
\* bounding box and centroid

MaxPrunes == 2
PruneSizes == {0, 2, 3}

PruneBlob(i, size) ==
    IF size = 0 THEN BlobClear
    ELSE [BlobClear EXCEPT !.num_pixels = size,
                           !.min_x = i, !.max_x = i + size - 1,
                           !.centroid_x = FDivInt(ToFloat(2 * i + size - 1), 2),
                           !.total_x = FDivInt(ToFloat(size * (2 * i + size - 1)), 2),
                           !.width = size, !.height = 1,
                           !.aspect_ratio = ToFloat(size),
                           !.average_temperature = ToFloat(WarmTemp)]

PruneInputs == {[i \in Slots |-> PruneBlob(i, sz[i])] : sz \in [Slots -> PruneSizes]}

InitPrune ==
    /\ running_average_size = BuildSize
    /\ min_blob_size \in MinBlobSizeChoices
    /\ minimum_travel_threshold = DEFAULT_MIN_TRAVEL_THRESHOLD
    /\ max_difference_threshold = DEFAULT_MAX_DIFFERENCE_THRESHOLD
    /\ max_dead_frames = DEFAULT_MAX_DEAD_FRAMES
    /\ num_background_frames = 0
    /\ frame = ZeroFrame
    /\ pixel_averages = ZeroFrame
    /\ pixel_variance = ZeroFrame
    /\ tracked_blobs = [i \in Slots |-> TBClear(TrackedBlobZero)]
    /\ movements = NoDelta
    /\ movement_changed_since_last_check = FALSE
    /\ num_unchanged_frames = 0
    /\ num_last_blobs = 0
    /\ track_id = 0
    /\ millis = 0
    /\ events = <<>>
    /\ tracked = FALSE
    /\ num_finalised = 0
    /\ num_diagonal = 0
    /\ num_ended = 0
    /\ misses = <<>>
    /\ lifetimes = <<>>
    /\ num_quiet_frames = 0
    /\ accesses = [reads_ok |-> TRUE, pool_ok |-> TRUE]
    /\ num_unread = 0
    /\ host_out = [movements |-> NoDelta, has_new |-> FALSE]
    /\ num_updates = 0
    /\ host_calls = 0
    /\ blob_array \in PruneInputs
    /\ num_prunes = 0
    /\ tblob = TBClear(TrackedBlobZero)
    /\ other_blob = BlobClear
    /\ difference = NoDifference
    /\ abs_moved = [x |-> 0, y |-> 0]
    /\ num_tblob_calls = 0

\* remove_small_blobs(blob_array), the array is pruned in place
RemoveSmallBlobs ==
    /\ num_prunes < MaxPrunes
    /\ num_prunes' = num_prunes + 1
    /\ blob_array' = remove_small_blobs(blob_array, min_blob_size)
    /\ UNCHANGED <<config_vars, background_vars, tracking_vars, movement_vars, millis,
                   history_vars, host_out, num_updates, host_calls, tblob_vars>>

NextPrune == RemoveSmallBlobs

SpecPrune == InitPrune /\ [][NextPrune]_vars

\* ------------------------------------------------------------------------
\* One TrackedBlob driven on its own: set() with a blob, then update_blob
\* with blobs that score below the threshold, frames without a match, and
\* get_difference against candidate blobs.  The blobs are built by add_pixel
\* from groups of adjacent pixels of one temperature.

MaxTblobCalls == 2

\* Pixel groups as sequences of <<row, col>>
TrackShapes ==
    { <<  <<0, 1>>, <<0, 2>>, <<0, 3>>  >>,
      <<  <<0, 1>>, <<0, 2>>, <<0, 3>>, <<0, 4>>  >>,
      <<  <<0, 0>>, <<1, 0>>, <<2, 0>>  >>,
      <<  <<0, 8>>, <<0, 9>>, <<0, 10>>  >>,
      <<  <<0, 14>>, <<0, 15>>, <<1, 14>>, <<1, 15>>,
          <<2, 14>>, <<2, 15>>, <<3, 14>>, <<3, 15>>  >>,
      <<  <<0, 10>>, <<0, 12>>, <<0, 14>>, <<0, 15>>, <<1, 14>>, <<1, 15>>,
          <<2, 14>>, <<2, 15>>, <<3, 14>>, <<3, 15>>  >>,
      <<  <<0, 10>>, <<0, 11>>, <<0, 12>>, <<0, 13>>, <<0, 14>>, <<0, 15>>,
          <<1, 10>>, <<1, 11>>, <<1, 12>>, <<1, 13>>, <<1, 14>>, <<1, 15>>  >> }

RECURSIVE BlobFrom(_, _)
BlobFrom(shape, n) == IF n = 0 THEN BlobClear ELSE BlobAddPixel(BlobFrom(shape, n - 1), Pixel(shape[n][2], shape[n][1], ToFloat(WarmTemp)))

TrackBlobs == {BlobFrom(shape, Len(shape)) : shape \in TrackShapes}

InitTblob ==
    /\ running_average_size = BuildSize
    /\ min_blob_size = DEFAULT_MIN_BLOB_SIZE
    /\ minimum_travel_threshold = DEFAULT_MIN_TRAVEL_THRESHOLD
    /\ max_difference_threshold = DEFAULT_MAX_DIFFERENCE_THRESHOLD
    /\ max_dead_frames = DEFAULT_MAX_DEAD_FRAMES
    /\ num_background_frames = 0
    /\ frame = ZeroFrame
    /\ pixel_averages = ZeroFrame
    /\ pixel_variance = ZeroFrame
    /\ tracked_blobs = [i \in Slots |-> TBClear(TrackedBlobZero)]
    /\ movements = NoDelta
    /\ movement_changed_since_last_check = FALSE
    /\ num_unchanged_frames = 0
    /\ num_last_blobs = 0
    /\ track_id = 0
    /\ millis = 0
    /\ events = <<>>
    /\ tracked = FALSE
    /\ num_finalised = 0
    /\ num_diagonal = 0
    /\ num_ended = 0
    /\ misses = <<>>
    /\ lifetimes = <<>>
    /\ num_quiet_frames = 0
    /\ accesses = [reads_ok |-> TRUE, pool_ok |-> TRUE]
    /\ num_unread = 0
    /\ host_out = [movements |-> NoDelta, has_new |-> FALSE]
    /\ num_updates = 0
    /\ host_calls = 0
    /\ blob_array = [i \in Slots |-> BlobClear]
    /\ num_prunes = 0
    /\ \E b \in TrackBlobs : tblob = TBSet(TBClear(TrackedBlobZero), b, 0, 0)
    /\ other_blob = BlobClear
    /\ difference = NoDifference
    /\ abs_moved = [x |-> 0, y |-> 0]
    /\ num_tblob_calls = 0

TblobRest == <<config_vars, background_vars, tracking_vars, movement_vars, millis, history_vars, host_out, num_updates, host_calls, prune_vars>>

\* The track is matched with blob b, as update_tracked_blobs does it
TblobMatch ==
    /\ num_tblob_calls < MaxTblobCalls
    /\ \E b \in TrackBlobs :
          /\ get_difference(tblob, b) < ToFloat(max_difference_threshold)
          /\ tblob' = update_blob(reset_updated_status(tblob), b, num_tblob_calls + 1)
          /\ abs_moved' = [x |-> abs_moved.x + absolute(b.centroid_x - tblob.blob.centroid_x),
                           y |-> abs_moved.y + absolute(b.centroid_y - tblob.blob.centroid_y)]
    /\ num_tblob_calls' = num_tblob_calls + 1
    /\ UNCHANGED <<other_blob, difference, TblobRest>>

\* A frame without a match in which sort_tracked_blobs retains the track
TblobMiss ==
    /\ num_tblob_calls < MaxTblobCalls
    /\ tblob.num_dead_frames + 1 < max_dead_frames
    /\ tblob' = [reset_updated_status(tblob) EXCEPT !.num_dead_frames = @ + 1]
    /\ num_tblob_calls' = num_tblob_calls + 1
    /\ UNCHANGED <<other_blob, difference, abs_moved, TblobRest>>

\* tblob.get_difference(b)
TblobScore ==
    /\ \E b \in TrackBlobs :
          /\ other_blob' = b
          /\ difference' = DifferenceFields(tblob, b)
    /\ UNCHANGED <<tblob, abs_moved, num_tblob_calls, TblobRest>>

NextTblob ==
    \/ TblobMatch
    \/ TblobMiss
    \/ TblobScore

SpecTblob == InitTblob /\ [][NextTblob]_vars

\* ------------------------------------------------------------------------
\* The host changing running_average_size between frames (the avg_size
\* argument of the web page)

MaxConfigFrames == 4
MaxConfigCalls == 2
SizeChoices == {1, 2, 3}

InitConfig ==
    /\ \E n \in SizeChoices : running_average_size = n
    /\ min_blob_size = DEFAULT_MIN_BLOB_SIZE
    /\ minimum_travel_threshold = DEFAULT_MIN_TRAVEL_THRESHOLD
    /\ max_difference_threshold = DEFAULT_MAX_DIFFERENCE_THRESHOLD
    /\ max_dead_frames = DEFAULT_MAX_DEAD_FRAMES
    /\ num_background_frames = 0
    /\ frame = ZeroFrame
    /\ pixel_averages = ZeroFrame
    /\ pixel_variance = ZeroFrame
    /\ tracked_blobs = [i \in Slots |-> TBClear(TrackedBlobZero)]
    /\ movements = NoDelta
    /\ movement_changed_since_last_check = FALSE
    /\ num_unchanged_frames = 0
    /\ num_last_blobs = 0
    /\ track_id = 0
    /\ millis = 0
    /\ events = <<>>
    /\ tracked = FALSE
    /\ num_finalised = 0
    /\ num_diagonal = 0
    /\ num_ended = 0
    /\ misses = <<>>
    /\ lifetimes = <<>>
    /\ num_quiet_frames = 0
    /\ accesses = [reads_ok |-> TRUE, pool_ok |-> TRUE]
    /\ num_unread = 0
    /\ host_out = [movements |-> NoDelta, has_new |-> FALSE]
    /\ num_updates = 0
    /\ host_calls = 0
    /\ blob_array = [i \in Slots |-> BlobClear]
    /\ num_prunes = 0
    /\ tblob = TBClear(TrackedBlobZero)
    /\ other_blob = BlobClear
    /\ difference = NoDifference
    /\ abs_moved = [x |-> 0, y |-> 0]
    /\ num_tblob_calls = 0

\* handle_server_args: tracker.running_average_size = server.arg(i).toInt()
SetRunningAverageSize ==
    /\ host_calls < MaxConfigCalls
    /\ host_calls' = host_calls + 1
    /\ \E n \in SizeChoices : running_average_size' = n
    /\ UNCHANGED <<min_blob_size, minimum_travel_threshold, max_difference_threshold,
                   max_dead_frames, background_vars, tracking_vars, movement_vars,
                   millis, history_vars, host_out, num_updates, prune_vars, tblob_vars>>

UpdateConfig ==
    /\ num_updates < MaxConfigFrames
    /\ \E f \in {QuietFrame, SceneFrame(ObjA1, {})} : Update(f, millis + 1)

NextConfig ==
    \/ UpdateConfig
    \/ SetRunningAverageSize
    \/ ResetBackground

SpecConfig == InitConfig /\ [][NextConfig]_vars

\* ------------------------------------------------------------------------
\* add_current_frame_to_background folding the same frame into a finished
\* background.  The pixels are independent: their means start at offsets of
\* -24..21 units of 1/FQ degree from the frame value, their deviations at
\* 0, 8, 16, 24 units times a scale of 0..MaxRollingScale; a background built with
\* running_average_size = 1 has every deviation NaN.

MaxRollingScale == 3
RollingSizes == {1, 2, 3, 5, 8}
RollingScales == 0..MaxRollingScale

RollingAverages == [i \in Rows |-> [j \in Cols |-> ToFloat(AmbientTemp) + (j - 8) * 3]]

InitRolling ==
    /\ running_average_size \in RollingSizes
    /\ min_blob_size = DEFAULT_MIN_BLOB_SIZE
    /\ minimum_travel_threshold = DEFAULT_MIN_TRAVEL_THRESHOLD
    /\ max_difference_threshold = DEFAULT_MAX_DIFFERENCE_THRESHOLD
    /\ max_dead_frames = DEFAULT_MAX_DEAD_FRAMES
    /\ num_background_frames = running_average_size
    /\ frame = QuietFrame
    /\ pixel_averages = RollingAverages
    /\ \E k \in RollingScales :
          pixel_variance = [i \in Rows |-> [j \in Cols |->
                               IF running_average_size = 1 THEN NaN ELSE i * 8 * k]]
    /\ tracked_blobs = [i \in Slots |-> TBClear(TrackedBlobZero)]
    /\ movements = NoDelta
    /\ movement_changed_since_last_check = FALSE
    /\ num_unchanged_frames = 0
    /\ num_last_blobs = 0
    /\ track_id = 0
    /\ millis = 0
    /\ events = <<>>
    /\ tracked = FALSE
    /\ num_finalised = 0
    /\ num_diagonal = 0
    /\ num_ended = 0
    /\ misses = <<>>
    /\ lifetimes = <<>>
    /\ num_quiet_frames = 0
    /\ accesses = [reads_ok |-> TRUE, pool_ok |-> TRUE]
    /\ num_unread = 0
    /\ host_out = [movements |-> NoDelta, has_new |-> FALSE]
    /\ num_updates = 0
    /\ host_calls = 0
    /\ blob_array = [i \in Slots |-> BlobClear]
    /\ num_prunes = 0
    /\ tblob = TBClear(TrackedBlobZero)
    /\ other_blob = BlobClear
    /\ difference = NoDifference
    /\ abs_moved = [x |-> 0, y |-> 0]
    /\ num_tblob_calls = 0

\* add_current_frame_to_background() on the frame that is loaded
FoldFrame ==
    /\ \E r \in {add_current_frame_to_background(frame, pixel_averages, pixel_variance,
                                                 running_average_size)} :
          /\ pixel_averages' = r.averages
          /\ pixel_variance' = r.variance
    /\ UNCHANGED <<config_vars, num_background_frames, frame, tracking_vars, movement_vars,
                   millis, history_vars, host_out, num_updates, host_calls, prune_vars,
                   tblob_vars>>

NextRolling == FoldFrame

\* The host loop calls update() in every iteration
SpecRolling == InitRolling /\ [][NextRolling]_vars /\ WF_vars(FoldFrame)

\* ------------------------------------------------------------------------
\* Properties

\* The step is a steady-state update(): events' is its call log
FrameStep == tracked' /\ num_updates' = num_updates + 1

\* The active tracks of a table, by slot
ActiveSlots(tb) == {i \in Slots : TBIsActive(tb[i])}

Starts == EventsOf(events, "start")
Matches == EventsOf(events, "match")
Ends == EventsOf(events, "end")
Keeps == EventsOf(events, "keep")

\* C1: in a steady-state update(), every promotion of an unassigned blob
\* writes into a slot that holds no active track after matching, ageing and
\* compaction.
C1_PromotionIntoEmptySlot ==
    tracked => \A k \in Starts : events[k].ok

\* C2: after any sequence of update() calls, the number of ids issued equals
\* the number of tracks finalised plus the number of active tracks in the
\* table.
C2_IdsAccounted ==
    track_id = num_ended + Cardinality(ActiveSlots(tracked_blobs))

\* C3: within one update(), each track receives update_blob from at most one
\* blob and each blob updates at most one track.
C3_MatchingOneToOne ==
    \A a \in Matches : \A b \in Matches :
        a # b => /\ events[a].slot # events[b].slot
                 /\ events[a].j # events[b].j

\* Two tracks were matched in one update()
C3_Witness ==
    /\ tracked
    /\ Cardinality(Matches) >= 2

\* C4: update_blob is applied to (track i, blob j) only if both are active
\* and their difference is strictly below max_difference_threshold.
C4_MatchBelowThreshold ==
    \A k \in Matches :
        /\ events[k].ok
        /\ events[k].diff < ToFloat(max_difference_threshold)

\* One track was matched while another blob of the frame matched no track
C4_Witness ==
    /\ tracked
    /\ Matches # {}
    /\ Starts # {}

\* The change of the counters that a track of net travel (tx, ty) is to
\* cause under the threshold T
ExpectedDelta(tx, ty, T) ==
    [d \in DOMAIN NoDelta |->
        IF \/ d = LEFT /\ tx < 0 - T
           \/ d = RIGHT /\ tx > T
           \/ d = UP /\ ty > T
           \/ d = DOWN /\ ty < 0 - T
           \/ d = NO_DIRECTION /\ absolute(tx) <= T /\ absolute(ty) <= T
        THEN 1 ELSE 0]

\* C5: finalising a track of net travel (tx, ty) increments LEFT iff tx < -T,
\* RIGHT iff tx > T, UP iff ty > T, DOWN iff ty < -T and NO_DIRECTION iff
\* neither axis exceeds T, each by one, leaves the other counters alone and
\* sets movement_changed.
C5_DirectionClassification ==
    \A k \in Ends :
        /\ events[k].delta = ExpectedDelta(events[k].tx, events[k].ty,
                                           ToFloat(minimum_travel_threshold))
        /\ events[k].ok

\* A track that travelled right further than the threshold was finalised
C5_Witness ==
    \E k \in Ends : /\ events[k].tx > ToFloat(minimum_travel_threshold)
                    /\ events[k].delta[RIGHT] = 1

MovementSum ==
    movements[LEFT] + movements[RIGHT] + movements[UP] + movements[DOWN]
        + movements[NO_DIRECTION]

\* C6 as stated: with no reset_movements() in between, the sum of the five
\* movement counters equals the number of finalised tracks.
C6_SumIsFinalised ==
    MovementSum = num_finalised

\* C6: with no reset_movements() in between, the sum of the five movement
\* counters equals the number of finalised tracks plus the number of them
\* that exceeded the threshold on both axes (those count twice).
C6_SumCountsDiagonalsTwice ==
    MovementSum = num_finalised + num_diagonal

\* A diagonal track has been finalised since the last reset_movements()
C6_Witness ==
    /\ num_diagonal > 0
    /\ movements[NO_DIRECTION] < num_finalised

\* The consecutive steady-state frames that the track in slot i has gone
\* unmatched when the step leaves it unmatched
DeadFramesAfter(i) == misses[tracked_blobs[i].id] + 1

UnmatchedInStep(i) == tracked_blobs[i].id \notin IdsOf(events', "match")

C8_ZeroDeadFrames ==
    [][(FrameStep /\ max_dead_frames = 0) =>
        \A i \in ActiveSlots(tracked_blobs) :
            LET id == tracked_blobs[i].id
            IN IF UnmatchedInStep(i)
               THEN /\ Cardinality({e \in EventsOf(events', "end") :
                                       events'[e].id = id}) = 1
                    /\ id \notin ActiveIds(tracked_blobs')
               ELSE /\ id \in ActiveIds(tracked_blobs')
                    /\ id \notin IdsOf(events', "end")]_vars

\* With max_dead_frames = 0, one update() matched a track and finalised another
C8_Witness ==
    /\ tracked
    /\ max_dead_frames = 0
    /\ Matches # {}
    /\ Ends # {}

\* C9: a track unmatched for k frames without blobs, 1 <= k < max_dead_frames,
\* and then matched is still in the table with the same id and start_pos,
\* one more update, num_dead_frames back from k to 0 and
\* max_num_dead_frames >= k.
C9_BriefDisappearance ==
    [][FrameStep =>
        \A i \in ActiveSlots(tracked_blobs) :
            LET t == tracked_blobs[i]
                k == misses[t.id]
            IN (/\ k >= 1
                /\ k < max_dead_frames
                /\ k <= num_quiet_frames
                /\ t.id \in IdsOf(events', "match"))
               => /\ t.num_dead_frames = k
                  /\ \E s \in ActiveSlots(tracked_blobs') :
                        LET u == tracked_blobs'[s]
                        IN /\ u.id = t.id
                           /\ u.start_pos_x = t.start_pos_x
                           /\ u.start_pos_y = t.start_pos_y
                           /\ u.times_updated = t.times_updated + 1
                           /\ u.num_dead_frames = 0
                           /\ u.max_num_dead_frames >= k]_vars

\* C10 as stated: every track-start observer call of a frame happens before
\* any track-end observer call of the same frame.
C10_StartsBeforeEnds ==
    \A s \in Starts : \A e \in Ends : s < e

\* C10: within one update(), matching precedes finalisation precedes
\* promotion: every update_blob happens before any track-end observer call
\* (and counter increment), and every track-end observer call before any
\* track-start observer call.
C10_EndsBeforeStarts ==
    /\ \A m \in Matches : \A e \in Ends : m < e
    /\ \A e \in Ends : \A s \in Starts : e < s
    /\ \A m \in Matches : \A s \in Starts : m < s

\* One update() matched a track, finalised another and started a third
C10_Witness ==
    /\ tracked
    /\ Matches # {}
    /\ Ends # {}
    /\ Starts # {}

\* ------------------------------------------------------------------------
\* Background phases

\* A step that is one call of update()
UpdateStep == num_updates' = num_updates + 1

\* C11: while fewer than running_average_size frames have been ingested, an
\* update() only adds its frame to the background: the frame count goes up
\* by one, the background is finished exactly after the
\* running_average_size-th such call, nothing is extracted, matched, aged or
\* promoted, no observer is called, and tracked_blobs, movements, the
\* movement flag, num_unchanged_frames and num_last_blobs keep their values
C11_BuildSuppressesTracking ==
    [][(UpdateStep /\ num_background_frames < running_average_size) =>
          /\ num_background_frames' = num_background_frames + 1
          /\ is_background_finished(num_background_frames', running_average_size')
                 = (num_background_frames + 1 = running_average_size)
          /\ ~tracked'
          /\ events' = <<>>
          /\ UNCHANGED <<tracked_blobs, movements, movement_changed_since_last_check,
                         num_unchanged_frames, num_last_blobs, track_id>>]_vars

\* A rebuild of the background has just finished while tracks were live
C11_Witness ==
    /\ running_average_size = BuildSize
    /\ num_background_frames = running_average_size
    /\ num_updates > running_average_size
    /\ ~tracked
    /\ ActiveSlots(tracked_blobs) # {}

\* C12: reset_background() leaves the background unfinished and changes
\* nothing but the frame count; the first update() after it makes every mean
\* the pixel of its frame and every variance accumulator zero, whatever they
\* held (with running_average_size = 1 the same call goes on to convert the
\* zero accumulators), and no frame is tracked until running_average_size
\* frames have been ingested
C12_ResetRestartsBackground ==
    [][/\ ResetBackground =>
            /\ ~is_background_finished(num_background_frames', running_average_size')
            /\ UNCHANGED <<tracked_blobs, movements, movement_changed_since_last_check,
                           num_unchanged_frames, num_last_blobs, track_id,
                           frame, pixel_averages, pixel_variance>>
       /\ (UpdateStep /\ num_background_frames = 0) =>
            /\ pixel_averages' = frame'
            /\ build_accumulate(frame', pixel_averages, pixel_variance, 0).variance
                   = ZeroFrame
            /\ pixel_variance' = IF running_average_size = 1
                                 THEN build_deviation(ZeroFrame, 1)
                                 ELSE ZeroFrame
       /\ (UpdateStep /\ num_background_frames < running_average_size) =>
            /\ ~tracked'
            /\ num_background_frames' = num_background_frames + 1]_vars

\* After a reset with a live track, the first frame has replaced the means
C12_Witness ==
    /\ running_average_size = BuildSize
    /\ host_calls = 1
    /\ num_background_frames = 1
    /\ ActiveSlots(tracked_blobs) # {}
    /\ frame = SceneFrame(ObjA1, {})
    /\ pixel_averages = frame
    /\ pixel_variance = ZeroFrame

\* ------------------------------------------------------------------------
\* Movement counters

\* C14: after reset_movements() all five counters are zero and
\* has_new_movements() would return false
C14_ResetMovementsComplete ==
    [][ResetMovements =>
          /\ movements' = NoDelta
          /\ ~movement_changed_since_last_check']_vars

\* C15: the flag returned by has_new_movements() is set exactly when a track
\* has been finalised since the last get_movements(); get_movements() hands
\* out the five counters at their own indices, leaves them as they are and
\* clears the flag; has_new_movements() returns the flag and changes nothing
C15_MovementFlag ==
    /\ [](movement_changed_since_last_check = (num_unread > 0))
    /\ [][/\ GetMovements =>
               /\ \A d \in {LEFT, RIGHT, UP, DOWN, NO_DIRECTION} :
                      host_out'.movements[d] = movements[d]
               /\ movements' = movements
               /\ ~movement_changed_since_last_check'
          /\ HasNewMovements =>
               /\ host_out'.has_new = movement_changed_since_last_check
               /\ UNCHANGED <<config_vars, background_vars, tracking_vars,
                              movement_vars>>]_vars

\* The host has read counters that record a movement in one direction only
C15_Witness ==
    /\ host_out.movements = movements
    /\ movements[LEFT] + movements[RIGHT] + movements[UP] + movements[DOWN] = 1
    /\ ~movement_changed_since_last_check
    /\ num_unread = 0
    /\ host_calls > 0

\* ------------------------------------------------------------------------
\* Track ids

\* The same track in two tables: a track is known by when and where it started
SameTrack(a, b) ==
    /\ a.start_time = b.start_time
    /\ a.start_pos_x = b.start_pos_x
    /\ a.start_pos_y = b.start_pos_y

\* C18: the tracks started by one update() get the ids track_id, track_id + 1,
\* ... in the order of their creation, all larger than every id given before;
\* the active tracks have pairwise different ids; and a track that is still in
\* the table after an update() - matched, aged or moved to another slot - has
\* the id it had before
C18_TrackIds ==
    /\ [](\A i \in ActiveSlots(tracked_blobs) :
            /\ tracked_blobs[i].id < track_id
            /\ \A j \in ActiveSlots(tracked_blobs) :
                   i # j => tracked_blobs[i].id # tracked_blobs[j].id)
    /\ [][FrameStep =>
            /\ track_id' = track_id + Cardinality(EventsOf(events', "start"))
            /\ {events'[k].id : k \in EventsOf(events', "start")}
                   = track_id .. (track_id' - 1)
            /\ \A a \in EventsOf(events', "start") :
                   \A b \in EventsOf(events', "start") :
                      a < b => events'[a].id < events'[b].id
            /\ \A i \in ActiveSlots(tracked_blobs') :
                   \A j \in ActiveSlots(tracked_blobs) :
                      SameTrack(tracked_blobs'[i], tracked_blobs[j])
                         => tracked_blobs'[i].id = tracked_blobs[j].id]_vars

\* The second track of the first steady-state frame has moved down to slot 0
C18_Witness ==
    /\ host_calls = 0
    /\ track_id >= 2
    /\ TBIsActive(tracked_blobs[0])
    /\ tracked_blobs[0].id = 1
    /\ tracked_blobs[0].start_time = running_average_size + 1
    /\ tracked_blobs[0].times_updated > 0

\* ------------------------------------------------------------------------
\* Constant scene

\* C20: when the background becomes ready after running_average_size
\* identical frames (the build frames of this specification are all
\* QuietFrame), every mean is the pixel of the frame and every sigma is 0;
\* and from such a state with an empty table, an update() with the same frame
\* finds no blob, calls no observer, creates no track, and leaves the
\* movement counters, the means and the sigmas as they are
C20_ConstantWarmUp ==
    /\ []((/\ host_calls = 0
           /\ num_updates = running_average_size
           /\ is_background_finished(num_background_frames, running_average_size))
             => /\ pixel_averages = frame
                /\ pixel_variance = ZeroFrame)
    /\ [][(/\ FrameStep
           /\ frame' = frame
           /\ pixel_averages = frame
           /\ pixel_variance = ZeroFrame
           /\ ActiveSlots(tracked_blobs) = {})
             => /\ num_last_blobs' = 0
                /\ events' = <<>>
                /\ UNCHANGED <<tracked_blobs, track_id, movements,
                               movement_changed_since_last_check,
                               pixel_averages, pixel_variance>>]_vars

\* ------------------------------------------------------------------------
\* Long-static objects

\* The rolling update of the background with the frame of the step
Folded ==
    LET bg == add_current_frame_to_background(frame', pixel_averages, pixel_variance,
                                              running_average_size)
    IN /\ pixel_averages' = bg.averages
       /\ pixel_variance' = bg.variance

\* C13: a steady-state update() folds its frame into the background iff no
\* blob survives pruning, or blobs survive and num_unchanged_frames, after its
\* increment, is above UNCHANGED_FRAME_DELAY; otherwise means and sigmas are
\* left as they are.  The counter goes up by one with every frame that has a
\* surviving blob and back to 0 with a blob-free frame, so the first
\* UNCHANGED_FRAME_DELAY frames of a run leave the background alone and the
\* later ones are folded in
C13_FoldGate ==
    [][FrameStep =>
          /\ num_unchanged_frames' =
                 IF num_last_blobs' > 0 THEN num_unchanged_frames + 1 ELSE 0
          /\ IF \/ num_last_blobs' = 0
                \/ /\ num_last_blobs' > 0
                   /\ num_unchanged_frames + 1 > UNCHANGED_FRAME_DELAY
             THEN Folded
             ELSE UNCHANGED <<pixel_averages, pixel_variance>>]_vars

\* The second frame past the delay of a run has been folded in: the means
\* have left the quiet background while the object is still seen
C13_Witness ==
    /\ tracked
    /\ num_last_blobs > 0
    /\ num_unchanged_frames = UNCHANGED_FRAME_DELAY + 2
    /\ pixel_averages # QuietFrame
    /\ pixel_variance # ZeroFrame

\* ------------------------------------------------------------------------
\* Blob extraction

\* C16: in every update() the indices into active_pixels, sort_queue and blobs
\* stay inside the arrays, every active_pixels entry read by get_blobs lies
\* below the count of remaining active pixels, and every slot written by the
\* promotion is a slot of tracked_blobs
C16_AccessesInBounds ==
    /\ accesses.pool_ok
    /\ accesses.reads_ok
    /\ \A k \in EventsOf(events, "start") : events[k].slot \in Slots

\* The active pixels of a frame, as row-major indices
ActiveIndices(frm, averages, variance) ==
    {k \in PixelSlots :
        IsActivePixel(frm, averages, variance, k \div FRAME_WIDTH, k % FRAME_WIDTH)}

\* Two pixel indices at most 1 + fuzz apart in both row and column
Near(a, b) ==
    /\ abs((a % FRAME_WIDTH) - (b % FRAME_WIDTH)) <= 1 + DEFAULT_ADJACENCY_FUZZ
    /\ abs((a \div FRAME_WIDTH) - (b \div FRAME_WIDTH)) <= 1 + DEFAULT_ADJACENCY_FUZZ

\* The connected group of S around C
RECURSIVE GroupOf(_, _)
GroupOf(C, S) ==
    LET N == {q \in S \ C : \E c \in C : Near(c, q)}
    IN IF N = {} THEN C ELSE GroupOf(C \cup N, S)

Groups(S) == {GroupOf({k}, S) : k \in S}

\* The lowest row-major pixel of a group
Seed(G) == CHOOSE k \in G : \A q \in G : k <= q

\* The group of GS with n groups of lower seed before it
NthGroup(GS, n) ==
    CHOOSE G \in GS : Cardinality({H \in GS : Seed(H) < Seed(G)}) = n

\* The blob holds exactly the pixels of the group: their number, their
\* bounding box and their coordinate sums
BlobIsGroup(b, G) ==
    /\ b.num_pixels = Cardinality(G)
    /\ \A k \in G : /\ b.min_x <= k % FRAME_WIDTH /\ k % FRAME_WIDTH <= b.max_x
                     /\ b.min_y <= k \div FRAME_WIDTH /\ k \div FRAME_WIDTH <= b.max_y
    /\ \E k \in G : b.min_x = k % FRAME_WIDTH
    /\ \E k \in G : b.max_x = k % FRAME_WIDTH
    /\ \E k \in G : b.min_y = k \div FRAME_WIDTH
    /\ \E k \in G : b.max_y = k \div FRAME_WIDTH

C19_NaNIgnored ==
    [][UpdateStep =>
          \A i \in Rows : \A j \in Cols :
             frame'[i][j] = NaN =>
                /\ ~IsActivePixel(frame', pixel_averages, pixel_variance, i, j)
                /\ pixel_averages'[i][j] = pixel_averages[i][j]
                /\ pixel_variance'[i][j] = pixel_variance[i][j]]_vars

\* ------------------------------------------------------------------------
\* Pixels and blobs

\* The sum of the sizes of the blobs in slots 0 .. n - 1
RECURSIVE TotalSize(_, _)
TotalSize(blobs, n) ==
    IF n = 0 THEN 0 ELSE BlobGetSize(blobs[n - 1]) + TotalSize(blobs, n - 1)

\* The row-major index of a pixel
IndexOf(p) == p.y * FRAME_WIDTH + p.x

\* C21: in every steady-state update() each pixel that get_blobs passes to
\* add_pixel is an active pixel of the frame (its position and temperature),
\* no pixel is passed twice, and when the active pixels form at most
\* MAX_BLOBS groups the sizes of the blobs add up to the number of active
\* pixels
C21_PixelsOnce ==
    [][FrameStep =>
          \E S \in {ActiveIndices(frame', pixel_averages, pixel_variance)} :
          \E found \in {get_blobs(frame', pixel_averages, pixel_variance,
                                  DEFAULT_ADJACENCY_FUZZ)} :
             /\ \A k \in DOMAIN found.added :
                   /\ found.added[k].p.x \in Cols
                   /\ found.added[k].p.y \in Rows
                   /\ IndexOf(found.added[k].p) \in S
                   /\ found.added[k].p.t = frame'[found.added[k].p.y][found.added[k].p.x]
             /\ \A k1 \in DOMAIN found.added : \A k2 \in DOMAIN found.added :
                   k1 # k2 => found.added[k1].p # found.added[k2].p
             /\ Cardinality(Groups(S)) <= MAX_BLOBS
                   => TotalSize(found.blobs, MAX_BLOBS) = Cardinality(S)]_vars

\* The blobs that received a pixel, and the pixels (as row-major indices)
\* that a blob received
BlobsOf(added) == {added[k].blob : k \in DOMAIN added}

PixelsOf(added, n) == {IndexOf(added[k].p) : k \in {q \in DOMAIN added : added[q].blob = n}}

\* C22: in every steady-state update() whose frame has at most MAX_BLOBS
\* groups, the pixel sets of the blobs built by get_blobs are exactly the
\* connected groups of the active pixels under the adjacency with the
\* default fuzz: each blob is connected in itself, and no pixel of a blob is
\* adjacent to a pixel of another blob
C22_BlobsAreComponents ==
    [][FrameStep =>
          \E S \in {ActiveIndices(frame', pixel_averages, pixel_variance)} :
          \E found \in {get_blobs(frame', pixel_averages, pixel_variance,
                                  DEFAULT_ADJACENCY_FUZZ)} :
             Cardinality(Groups(S)) <= MAX_BLOBS =>
                /\ {PixelsOf(found.added, n) : n \in BlobsOf(found.added)} = Groups(S)
                /\ \A n \in BlobsOf(found.added) :
                      \A k \in PixelsOf(found.added, n) :
                         GroupOf({k}, PixelsOf(found.added, n)) = PixelsOf(found.added, n)
                /\ \A n \in BlobsOf(found.added) : \A m \in BlobsOf(found.added) :
                      n # m => \A a \in PixelsOf(found.added, n) :
                                  \A b \in PixelsOf(found.added, m) : ~Near(a, b)
                /\ \A n \in Slots :
                      BlobIsActive(found.blobs[n]) <=> n \in BlobsOf(found.added)]_vars

\* The input slots that hold a blob of at least min_size pixels, and the
\* n-th of them in slot order
LargeSlots(blobs, min_size) == {i \in Slots : BlobGetSize(blobs[i]) >= min_size}

NthLarge(blobs, min_size, n) == CHOOSE i \in LargeSlots(blobs, min_size) : Cardinality({k \in LargeSlots(blobs, min_size) : k < i}) = n

\* C23: after remove_small_blobs, for any input array, every active blob has
\* at least min_blob_size pixels, the K input blobs of at least min_blob_size
\* pixels are in slots [0..K) in their input order with every field as it
\* was, and the slots [K..MAX_BLOBS) are inactive
C23_PruneCompacts ==
    [][num_prunes' = num_prunes + 1 =>
          \E K \in {Cardinality(LargeSlots(blob_array, min_blob_size))} :
             /\ \A i \in Slots : BlobIsActive(blob_array'[i])
                                      => BlobGetSize(blob_array'[i]) >= min_blob_size
             /\ \A i \in Slots : BlobIsActive(blob_array'[i]) <=> i < K
             /\ \A n \in 0..(K - 1) :
                   blob_array'[n] = blob_array[NthLarge(blob_array, min_blob_size, n)]
             /\ get_num_blobs(blob_array') = K]_vars

\* A pruned array in which a small blob and an empty slot were dropped and
\* the blobs of slots 2, 5 and 7 moved down in that order
C23_Witness ==
    /\ num_prunes = 1
    /\ min_blob_size = 3
    /\ BlobIsActive(blob_array[0]) /\ blob_array[0].min_x = 2
    /\ BlobIsActive(blob_array[1]) /\ blob_array[1].min_x = 5
    /\ BlobIsActive(blob_array[2]) /\ blob_array[2].min_x = 7
    /\ ~BlobIsActive(blob_array[3])

\* C24: at every frame boundary the track table is compacted - there is a
\* k with the slots [0..k) holding active tracks and the slots
\* [k..MAX_BLOBS) inactive
C24_TableCompacted ==
    \E k \in 0..MAX_BLOBS : \A i \in Slots : TBIsActive(tracked_blobs[i]) <=> i < k

\* In the last update a track was finalised in slot 0 and the track that
\* was in slot 1 was kept and moved down
C24_Witness ==
    /\ \E e \in EventsOf(events, "end") : events[e].slot = 0
    /\ \E k \in EventsOf(events, "keep") : events[k].from = 1 /\ events[k].slot = 0
    /\ TBIsActive(tracked_blobs[0])

\* The slots that add_remaining_blobs_to_tracked wrote in a call log
StartSlots(ev) == {ev[k].slot : k \in EventsOf(ev, "start")}

\* C25: in every steady-state update(), sort_tracked_blobs keeps the
\* surviving tracks in their order (a track stays or moves to a lower slot,
\* and never passes another one), and the track found in the slot after the
\* update, unless a promotion wrote that slot, equals in every field the
\* track as it was before the move
C25_SortKeepsOrderAndState ==
    [][(UpdateStep /\ tracked') =>
          \A k \in EventsOf(events', "keep") :
             /\ events'[k].slot <= events'[k].from
             /\ TBIsActive(tracked_blobs[events'[k].from])
             /\ tracked_blobs[events'[k].from].id = events'[k].id
             /\ events'[k].snap.id = events'[k].id
             /\ events'[k].slot \notin StartSlots(events')
                   => tracked_blobs'[events'[k].slot] = events'[k].snap
             /\ \A k2 \in EventsOf(events', "keep") :
                   k < k2 => /\ events'[k].from < events'[k2].from
                             /\ events'[k].slot < events'[k2].slot]_vars

\* A track that missed the frame was kept, moved from slot 1 to slot 0 with
\* its count of dead frames, and is there after the update
C25_Witness ==
    /\ tracked
    /\ \E k \in EventsOf(events, "keep") :
          /\ events[k].from = 1
          /\ events[k].slot = 0
          /\ events[k].snap.num_dead_frames >= 1
          /\ events[k].snap.times_updated >= 1
          /\ 0 \notin StartSlots(events)
          /\ tracked_blobs[0] = events[k].snap

\* The (track, blob) pairs whose track and blob are both unmatched before
\* the match event k of a call log, and after all of its match events
Unmatched(ev, k) == {p \in Slots \X Slots : \A k2 \in EventsOf(ev, "match") : k2 < k => (ev[k2].slot # p[1] /\ ev[k2].j # p[2])}

UnmatchedAtEnd(ev) == Unmatched(ev, Len(ev) + 1)

\* The scores of the frame: the tracks as they are before the update against
\* the pruned blobs of the new frame
ScoresBefore(blobs) == generate_difference_matrix([i \in Slots |-> reset_updated_status(tracked_blobs[i])], blobs, max_difference_threshold)

\* The pruned blobs of the new frame
NewBlobs == remove_small_blobs(get_blobs(frame', pixel_averages, pixel_variance, DEFAULT_ADJACENCY_FUZZ).blobs, min_blob_size)

\* C26: in every steady-state update(), each match takes a pair of a track
\* and a blob that are both still unmatched, its score is the one computed
\* from the tracks as they were before the update, it is below
\* max_difference_threshold and the least among the unmatched pairs, among
\* the pairs of that score it has the lowest track index and then the lowest
\* blob index, and when matching stops no unmatched pair is below the
\* threshold
C26_GreedyAscending ==
    [][FrameStep =>
          \E bl \in {NewBlobs} : \E dm \in {ScoresBefore(bl)} : \E ev \in {events'} :
             /\ \A k \in EventsOf(ev, "match") :
                   \E R \in {Unmatched(ev, k)} :
                      /\ <<ev[k].slot, ev[k].j>> \in R
                      /\ ev[k].diff = dm[ev[k].slot][ev[k].j]
                      /\ ev[k].diff < ToFloat(max_difference_threshold)
                      /\ \A p \in R : dm[p[1]][p[2]] >= ev[k].diff
                      /\ \A p \in R : dm[p[1]][p[2]] = ev[k].diff
                            => \/ ev[k].slot < p[1]
                               \/ (ev[k].slot = p[1] /\ ev[k].j <= p[2])
             /\ \A p \in UnmatchedAtEnd(ev) :
                   dm[p[1]][p[2]] >= ToFloat(max_difference_threshold)]_vars

\* Two tracks were matched in one update with the same score, the track of
\* slot 0 first
C26_Witness ==
    /\ tracked
    /\ \E k1 \in EventsOf(events, "match") : \E k2 \in EventsOf(events, "match") :
          /\ k1 < k2
          /\ events[k1].diff = events[k2].diff
          /\ events[k1].slot = 0
          /\ events[k2].slot = 1

\* The events of a call log about the track that was in slot i when
\* sort_tracked_blobs reached it
FateOf(ev, i) == {k \in EventsOf(ev, "keep") \cup EventsOf(ev, "end") : ev[k].from = i}

C28_TimesUpdatedCountsMatches ==
    [][FrameStep =>
          /\ \A i \in ActiveSlots(tracked_blobs') :
                tracked_blobs'[i].times_updated
                   = lifetimes'[tracked_blobs'[i].id].matches
          /\ \A k \in EventsOf(events', "start") :
                \A i \in ActiveSlots(tracked_blobs') :
                   tracked_blobs'[i].id = events'[k].id
                      => tracked_blobs'[i].times_updated = 0
          /\ \A k \in EventsOf(events', "end") :
                /\ events'[k].id \in DOMAIN lifetimes
                /\ events'[k].snap.times_updated = lifetimes[events'[k].id].matches]_vars

\* A track matched once and then missed twice was handed to the observer,
\* and a track promoted in the same update took the slot it had
C28_Witness ==
    /\ tracked
    /\ \E k \in EventsOf(events, "end") :
          /\ events[k].slot = 0
          /\ events[k].snap.times_updated = 1
          /\ events[k].snap.num_dead_frames = 2
    /\ \E k \in EventsOf(events, "start") :
          /\ events[k].slot = 0
          /\ tracked_blobs[0].id = events[k].id

\* C29: at every frame boundary, for every track in the table,
\* max_num_dead_frames is at least num_dead_frames and equals the longest run
\* of consecutive steady-state frames without a match that the track has had
\* since set()
C29_WorstRunRecorded ==
    tracked =>
       \A i \in ActiveSlots(tracked_blobs) :
          /\ tracked_blobs[i].max_num_dead_frames >= tracked_blobs[i].num_dead_frames
          /\ tracked_blobs[i].max_num_dead_frames = lifetimes[tracked_blobs[i].id].longest

\* travel is the displacement of the snapshot from the start position
Telescoped(t) ==
    /\ t.travel_x = t.blob.centroid_x - t.start_pos_x
    /\ t.travel_y = t.blob.centroid_y - t.start_pos_y

\* C30: after every steady-state update(), travel of every active track
\* equals its snapshot centroid minus start_pos on both axes, and a track
\* matched in the update has, when the match is done, predicted_position
\* equal to twice its new centroid minus the centroid it had before
C30_TravelTelescopes ==
    [][FrameStep =>
          /\ \A i \in ActiveSlots(tracked_blobs') : Telescoped(tracked_blobs'[i])
          /\ \A k \in EventsOf(events', "match") :
                \A e \in FateOf(events', events'[k].slot) :
                   /\ Telescoped(events'[e].snap)
                   /\ events'[e].snap.predicted_x
                         = 2 * events'[e].snap.blob.centroid_x
                              - tracked_blobs[events'[k].slot].blob.centroid_x
                   /\ events'[e].snap.predicted_y
                         = 2 * events'[e].snap.blob.centroid_y
                              - tracked_blobs[events'[k].slot].blob.centroid_y]_vars

\* A track that stayed for one match and moved on both axes in the next is
\* in the table, predicted ahead of its snapshot
C30_Witness ==
    /\ tracked
    /\ \E k \in EventsOf(events, "match") :
          \E i \in ActiveSlots(tracked_blobs) :
             /\ tracked_blobs[i].id = events[k].id
             /\ tracked_blobs[i].times_updated >= 2
             /\ tracked_blobs[i].travel_x > 0
             /\ tracked_blobs[i].travel_y # 0
             /\ tracked_blobs[i].predicted_x > tracked_blobs[i].blob.centroid_x

\* ------------------------------------------------------------------------
\* One track: travel and scores

\* C31: after any sequence of matches, total_travel of a track equals the
\* sum of the absolute movements of its matches on both axes, and is at least
\* the absolute net travel
C31_TotalTravelCumulative ==
    /\ ToFloat(tblob.total_travel_x) = abs_moved.x
    /\ ToFloat(tblob.total_travel_y) = abs_moved.y
    /\ ToFloat(tblob.total_travel_x) >= absolute(tblob.travel_x)
    /\ ToFloat(tblob.total_travel_y) >= absolute(tblob.travel_y)

\* A step in which get_difference was called on the track
ScoreStep == <<other_blob, difference>>' # <<other_blob, difference>>

\* C32: whenever a track is scored against a blob whose centroid is inside
\* the frame, the edge penalty is above 0 and at most 1, and it is 1 when
\* is_touching_side is false for the track
C32_EdgePenaltyPositive ==
    [][(/\ ScoreStep
        /\ other_blob'.centroid_x >= 0
        /\ other_blob'.centroid_x <= ToFloat(FRAME_WIDTH - 1)) =>
          /\ 0 < difference'.edge_penalty
          /\ difference'.edge_penalty <= ToFloat(1)
          /\ ~is_touching_side(tblob) => difference'.edge_penalty = ToFloat(1)]_vars

\* The whole-pixel part of the latest step of a track along the columns
LatestDirection(t) == ToInt(t.predicted_x - t.blob.centroid_x)

\* C33: whenever a track is scored, the direction difference is
\* direction_penalty iff the track is not at a side, times_updated > 1 and
\* the latest step and the net travel along the columns differ in sign
\* (one is >= 0 and the other is not), and 0 otherwise
C33_DirectionPenalty ==
    [][ScoreStep =>
          difference'.direction_difference
             = IF /\ ~is_touching_side(tblob)
                  /\ tblob.times_updated > 1
                  /\ (LatestDirection(tblob) >= 0) # (tblob.travel_x >= 0)
               THEN ToFloat(DEFAULT_DIRECTION_PENALTY)
               ELSE 0]_vars

\* The track with its dead-frame count replaced by n
WithDeadFrames(t, n) == [t EXCEPT !.num_dead_frames = n]

HasPrediction(t) == t.predicted_x >= 0 /\ t.predicted_y >= 0

\* The distance, summed over the axes, of blob b from the point <<x, y>>
AxisDistance(x, y, b) == absolute(x - b.centroid_x) + absolute(y - b.centroid_y)

\* C35: whenever a track is scored against a blob, the position difference
\* is the distance of the blob from the predicted position iff both predicted
\* coordinates are >= 0 and from the last snapshot centroid otherwise, times
\* position_penalty and the edge penalty; a track that was never matched has
\* predicted_position = (-1, -1) and is scored from its centroid
C35_PositionReference ==
    [][ScoreStep =>
          /\ difference'.position_difference
                = FMul((IF HasPrediction(tblob)
                        THEN AxisDistance(tblob.predicted_x, tblob.predicted_y, other_blob')
                        ELSE AxisDistance(tblob.blob.centroid_x, tblob.blob.centroid_y, other_blob'))
                       * DEFAULT_POSITION_PENALTY,
                       difference'.edge_penalty)
          /\ tblob.times_updated = 0 =>
                /\ tblob.predicted_x = 0 - ToFloat(1)
                /\ tblob.predicted_y = 0 - ToFloat(1)
                /\ ~HasPrediction(tblob)]_vars

\* A matched track whose prediction lies ahead of its snapshot, inside the
\* frame, was scored against a blob at some distance from the prediction
C35_Witness ==
    /\ tblob.times_updated >= 1
    /\ HasPrediction(tblob)
    /\ tblob.predicted_x # tblob.blob.centroid_x
    /\ other_blob # BlobClear
    /\ difference = DifferenceFields(tblob, other_blob)
    /\ difference.position_difference > 0


\* ------------------------------------------------------------------------
\* Track termination

\* The number of consecutive frames without blobs after which no track is left
QuietLimit == Max2(max_dead_frames, 1)

\* The track-end observer calls of the log for track id
EndsOf(ev, id) == {k \in EventsOf(ev, "end") : ev[k].id = id}

\* C36: in a steady-state frame without surviving blobs no track starts and
\* every active track is either retained, one dead frame older and below
\* max_dead_frames, or finalised: the track-end observer is called once for
\* it, a movement counter is incremented and it leaves the table; at the end
\* of max_dead_frames (1 when max_dead_frames = 0) consecutive such frames
\* the track table is empty
C36_QuietFramesEndTracks ==
    [][(FrameStep /\ num_last_blobs' = 0) =>
          /\ EventsOf(events', "start") = {}
          /\ EventsOf(events', "match") = {}
          /\ \A i \in ActiveSlots(tracked_blobs) :
                LET t == tracked_blobs[i]
                IN IF t.num_dead_frames + 1 < max_dead_frames
                   THEN /\ EndsOf(events', t.id) = {}
                        /\ \E s \in ActiveSlots(tracked_blobs') :
                              /\ tracked_blobs'[s].id = t.id
                              /\ tracked_blobs'[s].num_dead_frames = t.num_dead_frames + 1
                   ELSE /\ Cardinality(EndsOf(events', t.id)) = 1
                        /\ \A k \in EndsOf(events', t.id) :
                              \E d \in DOMAIN NoDelta : events'[k].delta[d] >= 1
                        /\ \A s \in ActiveSlots(tracked_blobs') :
                              tracked_blobs'[s].id # t.id
          /\ num_quiet_frames' >= QuietLimit => ActiveSlots(tracked_blobs') = {}]_vars

\* With max_dead_frames = 3, the third consecutive frame without blobs has
\* just finalised a track and left the table empty
C36_Witness ==
    /\ tracked
    /\ max_dead_frames = 3
    /\ num_quiet_frames = 3
    /\ num_last_blobs = 0
    /\ Ends # {}
    /\ ActiveSlots(tracked_blobs) = {}


\* ------------------------------------------------------------------------
\* Loop bounds of update()

\* The sweeps of the log that belong to blob n
SweepsOf(sweeps, n) == {k \in DOMAIN sweeps : sweeps[k].blob = n}

\* C37: in every steady-state update() the outer loop of get_blobs runs at
\* most MAX_BLOBS times, the number of remaining active pixels does not
\* increase during a sweep and is lower at the end of the construction of
\* each blob than at its start, and the matching loop runs at most MAX_BLOBS
\* iterations
C37_LoopsBounded ==
    [][FrameStep =>
          \E found \in {get_blobs(frame', pixel_averages, pixel_variance,
                                  DEFAULT_ADJACENCY_FUZZ)} :
             /\ found.num_blobs <= MAX_BLOBS
             /\ \A k \in DOMAIN found.sweeps :
                   found.sweeps[k].after <= found.sweeps[k].before
             /\ \A n \in 0..(found.num_blobs - 1) :
                   \E first \in SweepsOf(found.sweeps, n) :
                      \E last \in SweepsOf(found.sweeps, n) :
                         /\ \A k \in SweepsOf(found.sweeps, n) : first <= k /\ k <= last
                         /\ found.sweeps[last].after < found.sweeps[first].before
             /\ Cardinality(EventsOf(events', "match")) <= MAX_BLOBS]_vars


\* ------------------------------------------------------------------------
\* Readiness and the deviation under configuration changes

Ready == is_background_finished(num_background_frames, running_average_size)

\* C38: the background becomes finished only by an update() whose
\* build_background converts the accumulators to standard deviations, so a
\* finished background never holds the raw accumulators; while it is
\* finished pixel_variance changes only by the rolling update; and it stays
\* finished until reset_background(), whatever the host does to
\* running_average_size between the frames
C38_ReadyMeansConverted ==
    [][/\ (~Ready /\ Ready') =>
             /\ UpdateStep
             /\ pixel_variance'
                   = build_deviation(build_accumulate(frame', pixel_averages, pixel_variance,
                                                      num_background_frames).variance,
                                     num_background_frames + 1)
       /\ (Ready /\ Ready') =>
             \/ pixel_variance' = pixel_variance
             \/ /\ UpdateStep
                /\ pixel_variance'
                      = add_current_frame_to_background(frame', pixel_averages, pixel_variance,
                                                        running_average_size).variance
       /\ (Ready /\ ~Ready') =>
             /\ num_background_frames' = 0
             /\ running_average_size' = running_average_size]_vars


\* ------------------------------------------------------------------------
\* The rolling estimator on a constant frame

\* The deviation and the distance of the mean from the frame value that
\* count as converged: the resolution that the division by
\* running_average_size leaves
RollingResolution == running_average_size

\* The largest deviation and distance the runs start from
RollingBound == Max2(8 * (FRAME_HEIGHT - 1) * MaxRollingScale, 3 * (FRAME_WIDTH \div 2))

Distance(i, j) == absolute(FSub(frame[i][j], pixel_averages[i][j]))

\* C39: when the same frame is folded in repeatedly, each deviation is a
\* number within the bound, never increases from one call to the next and
\* ends at 0 (within the resolution), and each mean ends at the frame value
C39_RollingQuiescence ==
    /\ [][pixel_variance' # pixel_variance =>
             \A i \in Rows : \A j \in Cols :
                /\ pixel_variance'[i][j] # NaN
                /\ pixel_variance'[i][j] >= 0
                /\ pixel_variance'[i][j] <= RollingBound
                /\ pixel_variance'[i][j] <= pixel_variance[i][j]]_vars
    /\ <>[](\A i \in Rows : \A j \in Cols :
               /\ pixel_variance[i][j] # NaN
               /\ pixel_variance[i][j] <= RollingResolution
               /\ pixel_averages[i][j] # NaN
               /\ Distance(i, j) <= RollingResolution)


====
